---- MODULE Spec2Model ----
(***************************************************************************)
(* The C++ Bit Library (vreverdy/bit): a bit-addressable view over an      *)
(* array of unsigned words.  Words are modelled as naturals below          *)
(* 2^digits, an iterator as a record [base, position] whose base is an     *)
(* index into the word array, and every C++ assignment to a word_type      *)
(* object as a truncation modulo 2^digits (integer promotion makes the     *)
(* intermediate values wider than the word).                               *)
(***************************************************************************)
EXTENDS Integers, Naturals, Sequences, FiniteSets, TLC

\* ------------------------------------------------------------------------
\* Program constants and bounds
\* ------------------------------------------------------------------------

\* binary_digits<unsigned char>::value
digits == 8

\* number of words of the caller's array
NumWords == 3

\* number of successive reverse calls on the same range
MaxReverse == 2

\* largest |n| passed to operator+ / operator- / operator[]
MaxN == 10

\* largest start and len passed to _bextr<unsigned char>
MaxShift == 10

\* largest number of characters in the input stream
MaxInput == 3

\* largest bit count passed to resize and reserve
MaxBits == 20

\* ------------------------------------------------------------------------
\* Word arithmetic (unsigned, width d)
\* ------------------------------------------------------------------------
RECURSIVE Pow2(_)
Pow2(n) == IF n <= 0 THEN 1 ELSE 2 * Pow2(n - 1)

Word == 0 .. (Pow2(digits) - 1)

\* conversion of an int/unsigned value to a word_type of d bits
Trunc(x, d) == x % Pow2(d)

\* x << n as computed after promotion (not truncated); n < d keeps it small
Shl(x, n) == x * Pow2(n)

\* x >> n
Shr(x, n) == x \div Pow2(n)

RECURSIVE BitAnd(_, _)
BitAnd(x, y) ==
    IF x = 0 \/ y = 0 THEN 0
    ELSE (x % 2) * (y % 2) + 2 * BitAnd(x \div 2, y \div 2)

RECURSIVE BitOr(_, _)
BitOr(x, y) ==
    IF x = 0 THEN y
    ELSE IF y = 0 THEN x
    ELSE (IF x % 2 = 1 \/ y % 2 = 1 THEN 1 ELSE 0)
         + 2 * BitOr(x \div 2, y \div 2)

RECURSIVE BitXor(_, _)
BitXor(x, y) ==
    IF x = 0 THEN y
    ELSE IF y = 0 THEN x
    ELSE ((x + y) % 2) + 2 * BitXor(x \div 2, y \div 2)

\* ~x seen through a later truncation to d bits
BitNot(x, d) == (Pow2(d) - 1) - Trunc(x, d)

\* the C++ bool-to-integer conversion used in (len < digits) factors
B2I(b) == IF b THEN 1 ELSE 0

\* ------------------------------------------------------------------------
\* Word instruction layer (bit_details.hpp)
\* ------------------------------------------------------------------------

\* for (dst = T(); src; src >>= 1) dst += src & 1;
RECURSIVE _popcnt(_)
_popcnt(src) == IF src = 0 THEN 0 ELSE (src % 2) + _popcnt(src \div 2)

\* mutant of _bextr: the mask is one bit wider
_bextr_widemask(src, start, len) ==
    LET msk == Trunc(Shl(1, len + 1) * B2I(len < digits) - 1, digits)
    IN  BitAnd(Shr(src, start), msk * B2I(start < digits))

\* msk = (one << len) * (len < digits) - one;
\* return (src >> start) & msk * (start < digits);
_bextr(src, start, len) ==
    LET msk == Trunc(Shl(1, len) * B2I(len < digits) - 1, digits)
    IN  BitAnd(Shr(src, start), msk * B2I(start < digits))

\* mutant of _bitblend_mask: the bits of src0 under the mask are kept
_bitblend_mask_or(src0, src1, msk) == BitOr(src0, BitAnd(src1, msk))

\* _bitblend(src0, src1, msk): return src0 ^ ((src0 ^ src1) & msk);
_bitblend_mask(src0, src1, msk) ==
    BitXor(src0, BitAnd(BitXor(src0, src1), msk))

\* mutant of _bitblend: the mask is not moved to start
_bitblend_unshifted(src0, src1, start, len) ==
    LET msk == Trunc(Shl(1, len) * B2I(len < digits) - 1, digits)
    IN  BitXor(src0, BitAnd(BitXor(src0, src1), msk * B2I(start < digits)))

\* src0 ^ ((src0 ^ src1) & msk * (start < digits)) with the contiguous mask
_bitblend(src0, src1, start, len) ==
    LET msk == Trunc(Shl(Shl(1, len) * B2I(len < digits) - 1, start), digits)
    IN  BitXor(src0, BitAnd(BitXor(src0, src1), msk * B2I(start < digits)))

\* mutant of _shld: the vacated lsbs are not filled from src
_shld_nofill(dst, src, cnt) ==
    IF cnt < digits
    THEN Trunc(Shl(dst, cnt), digits)
    ELSE Trunc(Shl(src, cnt - digits) * B2I(cnt < digits + digits), digits)

\* double precision shift left: the lsbs of dst are filled by the msbs of src
_shld(dst, src, cnt) ==
    IF cnt < digits
    THEN Trunc(BitOr(Shl(dst, cnt), Shr(src, digits - cnt)), digits)
    ELSE Trunc(Shl(src, cnt - digits) * B2I(cnt < digits + digits), digits)

\* mutant of _shrd: the vacated msbs are not filled from src
_shrd_nofill(dst, src, cnt) ==
    IF cnt < digits
    THEN Shr(dst, cnt)
    ELSE Trunc(Shr(src, cnt - digits) * B2I(cnt < digits + digits), digits)

\* double precision shift right: the msbs of dst are filled by the lsbs of src
_shrd(dst, src, cnt) ==
    IF cnt < digits
    THEN Trunc(BitOr(Shr(dst, cnt), Shl(src, digits - cnt)), digits)
    ELSE Trunc(Shr(src, cnt - digits) * B2I(cnt < digits + digits), digits)

\* --- bit swap: 64-bit unsigned products as 8 little-endian byte limbs ---
ULLBytes == 8

first_c  == <<2, 8, 32, 128, 0, 0, 0, 0>>      \* 0x80200802ULL
second_c == <<16, 33, 66, 132, 8, 0, 0, 0>>    \* 0x0884422110ULL
third_c  == <<1, 1, 1, 1, 1, 0, 0, 0>>         \* 0x0101010101ULL
fourth_c == 32

RECURSIVE LimbSum(_, _, _, _)
\* sum of x[i] * y[k + 1 - i] for i in 1..j
LimbSum(x, y, k, j) ==
    IF j = 0 THEN 0 ELSE x[j] * y[k + 1 - j] + LimbSum(x, y, k, j - 1)

RECURSIVE MulLimbs(_, _, _, _)
\* limbs k..ULLBytes of x * y modulo 2^64, with the carry into limb k
MulLimbs(x, y, k, carry) ==
    IF k > ULLBytes THEN <<>>
    ELSE LET s == LimbSum(x, y, k, k) + carry
         IN  <<s % 256>> \o MulLimbs(x, y, k + 1, s \div 256)

MulULL(x, y) == MulLimbs(x, y, 1, 0)

AndULL(x, y) == [i \in 1 .. ULLBytes |-> BitAnd(x[i], y[i])]

ToULL(src) == [i \in 1 .. ULLBytes |-> IF i = 1 THEN src ELSE 0]

\* dst = ((src * first) & second) * third >> fourth, converted to one byte
_bitswap_byte(src) ==
    MulULL(AndULL(MulULL(ToULL(src), first_c), second_c), third_c)
        [(fourth_c \div 8) + 1]

RECURSIVE _bitswap_mask(_, _, _)
\* _bitswap<T, N>(): the interleave mask; called with cnt = d, msk = ~T()
_bitswap_mask(cnt, msk, N) ==
    IF cnt = N THEN msk
    ELSE _bitswap_mask(cnt \div 2,
                       Trunc(BitXor(msk, Shl(msk, cnt \div 2)), digits), N)

RECURSIVE _bitswap_rec(_, _)
\* _bitswap<T, N>(src): halve and swap
_bitswap_rec(src, N) ==
    LET cnt == N \div 2
        msk == _bitswap_mask(digits, Pow2(digits) - 1, cnt)
        s   == Trunc(BitOr(BitAnd(Shr(src, cnt), msk),
                           BitAnd(Trunc(Shl(src, cnt), digits),
                                  BitNot(msk, digits))), digits)
    IN  IF cnt > 1 THEN _bitswap_rec(s, cnt) ELSE s

RECURSIVE _bitswap_loop_noshift(_, _, _)
\* mutant of _bitswap_loop: dst is not shifted by the remaining i
_bitswap_loop_noshift(src, dst, i) ==
    IF src = 0 THEN dst
    ELSE _bitswap_loop_noshift(src \div 2,
                               BitOr(Trunc(Shl(dst, 1), digits), src % 2),
                               i - 1)

RECURSIVE _bitswap_loop(_, _, _)
\* for (src >>= 1; src; src >>= 1) { dst <<= 1; dst |= src & 1; i--; }
\* dst <<= i;
_bitswap_loop(src, dst, i) ==
    IF src = 0 THEN Trunc(Shl(dst, i), digits)
    ELSE _bitswap_loop(src \div 2,
                       BitOr(Trunc(Shl(dst, 1), digits), src % 2), i - 1)

\* mutant of _bitswap: the two halves are swapped and nothing below them
_bitswap_halves(src) ==
    Trunc(BitOr(Shr(src, digits \div 2), Shl(src, digits \div 2)), digits)

\* the byte trick evaluated once for every value of an unsigned char
bitswap_byte_table == [w \in Word |-> _bitswap_byte(w)]

_bitswap(src) ==
    IF digits = 8 THEN bitswap_byte_table[src]
    ELSE IF _popcnt(digits) = 1 THEN _bitswap_rec(src, digits)
    ELSE _bitswap_loop(src \div 2, src, digits - 1)

\* --- parallel bit deposit and extract ---

RECURSIVE _pdep_loop(_, _, _, _)
\* while (msk) { dst >>= 1;
\*     if (msk & 1) { dst |= src << (digits - 1); src >>= 1; }
\*     msk >>= 1; ++cnt; }
_pdep_loop(src, msk, dst, cnt) ==
    IF msk = 0 THEN [dst |-> dst, cnt |-> cnt]
    ELSE IF msk % 2 = 1
    THEN _pdep_loop(Shr(src, 1), Shr(msk, 1),
                    Trunc(BitOr(Shr(dst, 1), Shl(src, digits - 1)), digits),
                    cnt + 1)
    ELSE _pdep_loop(src, Shr(msk, 1), Shr(dst, 1), cnt + 1)

\* mutant of _pdep: the deposited bits are not moved down at the end
_pdep_unshifted(src, msk) == _pdep_loop(src, msk, 0, 0).dst

\* _pdep without compiler intrinsics
_pdep(src, msk) ==
    LET l == _pdep_loop(src, msk, 0, 0)
    IN  Shr(l.dst, (digits - l.cnt) * B2I(l.cnt > 0))

RECURSIVE _pext_loop(_, _, _, _)
\* while (msk) {
\*     if (msk & 1) { dst >>= 1; dst |= src << (digits - 1); ++cnt; }
\*     src >>= 1; msk >>= 1; }
_pext_loop(src, msk, dst, cnt) ==
    IF msk = 0 THEN [dst |-> dst, cnt |-> cnt]
    ELSE IF msk % 2 = 1
    THEN _pext_loop(Shr(src, 1), Shr(msk, 1),
                    Trunc(BitOr(Shr(dst, 1), Shl(src, digits - 1)), digits),
                    cnt + 1)
    ELSE _pext_loop(Shr(src, 1), Shr(msk, 1), dst, cnt)

\* _pext without compiler intrinsics
_pext(src, msk) ==
    LET l == _pext_loop(src, msk, 0, 0)
    IN  Shr(l.dst, (digits - l.cnt) * B2I(l.cnt > 0))

\* --- population count and zero counts ---

\* std::numeric_limits<unsigned int>::digits
uint_digits == 32

RECURSIVE BitOf(_, _)
\* (x >> i) & 1
BitOf(x, i) == IF i = 0 THEN x % 2 ELSE BitOf(x \div 2, i - 1)

\* __builtin_popcount(x): the number of 1-bits of the unsigned int x
builtin_popcount(x) ==
    Cardinality({i \in 0 .. (uint_digits - 1) : BitOf(x, i) = 1})

RECURSIVE BitLength(_)
\* the index of the highest 1-bit of x, plus one
BitLength(x) == IF x = 0 THEN 0 ELSE 1 + BitLength(x \div 2)

RECURSIVE LowZeros(_)
\* the index of the lowest 1-bit of x # 0
LowZeros(x) == IF x % 2 = 1 THEN 0 ELSE 1 + LowZeros(x \div 2)

\* __builtin_clz(x): the number of leading 0-bits of the unsigned int x,
\* starting at the most significant bit; undefined for x = 0, and the
\* callers never pass 0
builtin_clz(x) ==
    IF x = 0 THEN CHOOSE n \in {} : TRUE ELSE uint_digits - BitLength(x)

\* __builtin_ctz(x): the number of trailing 0-bits of the unsigned int x,
\* starting at the least significant bit; undefined for x = 0, and the
\* callers never pass 0
builtin_ctz(x) ==
    IF x = 0 THEN CHOOSE n \in {} : TRUE ELSE LowZeros(x)

\* _popcnt with compiler intrinsics, digits <= the digits of unsigned int
_popcnt_intrinsic(src) == Trunc(builtin_popcount(src), digits)

\* _lzcnt with compiler intrinsics, digits <= the digits of unsigned int
_lzcnt_intrinsic(src) ==
    IF digits < uint_digits
    THEN Trunc(IF src # 0
               THEN builtin_clz(src) - (uint_digits - digits)
               ELSE digits, digits)
    ELSE Trunc(IF src # 0 THEN builtin_clz(src) ELSE digits, digits)

RECURSIVE _lzcnt_loop(_, _)
\* while (src >>= 1) ++dst;
_lzcnt_loop(src, dst) ==
    IF src \div 2 # 0 THEN _lzcnt_loop(src \div 2, dst + 1) ELSE dst

\* mutant of _lzcnt: dst starts at 0 for every src
_lzcnt_fromzero(src) == Trunc(digits - _lzcnt_loop(src, 0), digits)

\* _lzcnt without compiler intrinsics: T dst = src != T(); ...; digits - dst
_lzcnt(src) == Trunc(digits - _lzcnt_loop(src, B2I(src # 0)), digits)

\* _tzcnt with compiler intrinsics, digits <= the digits of unsigned int
_tzcnt_intrinsic(src) ==
    Trunc(IF src # 0 THEN builtin_ctz(src) ELSE digits, digits)

RECURSIVE _tzcnt_loop(_, _)
\* for (dst = T(); src; dst++) src >>= 1;
_tzcnt_loop(src, dst) ==
    IF src # 0 THEN _tzcnt_loop(src \div 2, dst + 1) ELSE dst

\* _tzcnt without compiler intrinsics
_tzcnt(src) ==
    IF src # 0
    THEN _tzcnt_loop(Trunc(Shr(BitXor(src, src - 1), 1), digits), 0)
    ELSE digits

\* --- unsigned int words: bit i of the word at index i ---
\* (integer promotion leaves an unsigned int as it is, so a shift by its
\* width or more is undefined)

UIntBits == 0 .. (uint_digits - 1)

UZero == [i \in UIntBits |-> 0]

UOne == [i \in UIntBits |-> IF i = 0 THEN 1 ELSE 0]

\* the unsigned int with the 16-bit halves hi and lo
UFromHalves(hi, lo) ==
    [i \in UIntBits |-> IF i < 16 THEN BitOf(lo, i) ELSE BitOf(hi, i - 16)]

\* what a build makes of a shift by the width or more: the count is taken
\* modulo the width (x86 shl/shr), or every bit is shifted out
ShiftModes == {"wrap", "zero"}

\* x << n for n below the width
UShlIn(x, n) == [i \in UIntBits |-> IF i >= n THEN x[i - n] ELSE 0]

\* x >> n for n below the width
UShrIn(x, n) == [i \in UIntBits |-> IF i + n < uint_digits THEN x[i + n] ELSE 0]

\* x << n
UShl(x, n, ub) ==
    IF n < uint_digits THEN UShlIn(x, n)
    ELSE IF ub = "wrap" THEN UShlIn(x, n % uint_digits) ELSE UZero

\* x >> n
UShr(x, n, ub) ==
    IF n < uint_digits THEN UShrIn(x, n)
    ELSE IF ub = "wrap" THEN UShrIn(x, n % uint_digits) ELSE UZero

\* x | y
UOr(x, y) == [i \in UIntBits |-> IF x[i] = 1 \/ y[i] = 1 THEN 1 ELSE 0]

\* x & y
UAnd(x, y) == [i \in UIntBits |-> x[i] * y[i]]

\* x * b for a comparison result b
UMulBool(x, b) == IF b THEN x ELSE UZero

\* x - 1 modulo 2^32
UDec(x) ==
    [i \in UIntBits |->
        IF \A j \in 0 .. (i - 1) : x[j] = 0 THEN 1 - x[i] ELSE x[i]]

\* _bextr<unsigned int> without compiler intrinsics
_bextr_uint(src, start, len, ub) ==
    LET msk == UDec(UMulBool(UShl(UOne, len, ub), len < uint_digits))
    IN  UAnd(UShr(src, start, ub), UMulBool(msk, start < uint_digits))

\* x ^ y
UXor(x, y) == [i \in UIntBits |-> IF x[i] = y[i] THEN 0 ELSE 1]

\* _bitblend<unsigned int>(src0, src1, start, len)
_bitblend_uint(src0, src1, start, len, ub) ==
    LET msk == UShl(UDec(UMulBool(UShl(UOne, len, ub), len < uint_digits)),
                    start, ub)
    IN  UXor(src0, UAnd(UXor(src0, src1),
                        UMulBool(msk, start < uint_digits)))

\* _shld<unsigned int>
_shld_uint(dst, src, cnt, ub) ==
    IF cnt < uint_digits
    THEN UOr(UShl(dst, cnt, ub), UShr(src, uint_digits - cnt, ub))
    ELSE UMulBool(UShl(src, cnt - uint_digits, ub),
                  cnt < uint_digits + uint_digits)

\* _shrd<unsigned int>
_shrd_uint(dst, src, cnt, ub) ==
    IF cnt < uint_digits
    THEN UOr(UShr(dst, cnt, ub), UShl(src, uint_digits - cnt, ub))
    ELSE UMulBool(UShr(src, cnt - uint_digits, ub),
                  cnt < uint_digits + uint_digits)

\* ------------------------------------------------------------------------
\* State
\* ------------------------------------------------------------------------
VARIABLES
    mem,      \* the caller's word array: index -> word
    mem0,     \* its content when the iterators were made
    first,    \* bit_iterator first of the range
    last,     \* bit_iterator last of the range
    result,   \* result[v]: what count(first, last, v) returned, once called
    nrev,     \* number of reverse(first, last) calls made
    iter,       \* a bit_iterator the caller moves around
    p1,       \* iter before the last operation on iter
    op1,      \* the last operation on iter: [op, n]
    p2,       \* iter before the += that the last += followed, if it did
    op2,      \* that earlier +=, or NoOp
    ref,      \* the bit_reference last returned by iter[n], or NoRef
    wr,       \* the write made through a reference: [i, b], or NoWrite
    rd,       \* <<b>> once a fresh reference to bit wr.i has read b back
    ndebug,   \* TRUE when the build defines NDEBUG (assert expands to nothing)
    pc,       \* "run", or "assert" once an assertion has failed
    chain,    \* [from, k]: iter was reached from `from` by k successive ++
    cmp,      \* cmp[o]: what the operator o returned for (first, last)
    bptr,     \* the _ref member of the caller's bit_pointer, or NoRef
    ref2,     \* the reference (if any) given to an operation on ref
    val,      \* the bit_value (if any) given to it: <<b>>, or <<>>
    rop,      \* the operation made on ref and the flips it made, or NoRop
    args,     \* the arguments of a word instruction
    ret,      \* what the instruction returned, or NoRet
    strm,     \* the input stream and the bit_value extracted from it
    bset,     \* the bitset adapter: its size and its container
    bval,     \* a bit_value and the compound assignment made to it
    trace     \* the last two ++ and -- in a row, newest first: [op, at]

algVars == <<mem, mem0, first, last, result, nrev>>

itVars == <<iter, p1, op1, p2, op2, ref, chain>>

refVars == <<wr, rd, ref2, val, rop>>

wordVars == <<cmp, bptr, args, ret>>

extVars == <<strm, bset, bval, trace>>

vars == <<mem, mem0, first, last, result, nrev,
          iter, p1, op1, p2, op2, ref, wr, rd, ndebug, pc,
          chain, cmp, bptr, ref2, val, rop, args, ret, strm, bset, bval,
          trace>>

\* no count has returned yet
NotCounted == [v \in {} |-> 0]

\* nothing has been read back yet
Unread == <<>>

Idx == 0 .. (NumWords - 1)

\* ------------------------------------------------------------------------
\* Bit iterator (bit_iterator.hpp)
\* ------------------------------------------------------------------------

\* bit_iterator(i, pos)
Iter(b, p) == [base |-> b, position |-> p]

\* operator-(lhs, rhs): main * digits + (lhs._position - rhs._position)
Difference(lhs, rhs) ==
    (lhs.base - rhs.base) * digits + (lhs.position - rhs.position)

\* C++ integer division truncates toward zero
TruncDiv(x, y) == IF x >= 0 THEN x \div y ELSE -((-x) \div y)

\* the bit_iterator(i, pos) constructor's assert(pos < digits)
position_assert(pos) == pos < digits

\* mutant of operator_inc: the word is left one increment late
operator_inc_late(x) ==
    IF x.position < digits
    THEN Iter(x.base, x.position + 1)
    ELSE Iter(x.base + 1, 0)

\* operator++
operator_inc(x) ==
    IF x.position + 1 < digits
    THEN Iter(x.base, x.position + 1)
    ELSE Iter(x.base + 1, 0)

\* mutant of operator_dec: the word is kept when the position wraps
operator_dec_sameword(x) ==
    IF x.position # 0
    THEN Iter(x.base, x.position - 1)
    ELSE Iter(x.base, digits - 1)

\* operator--
operator_dec(x) ==
    IF x.position # 0
    THEN Iter(x.base, x.position - 1)
    ELSE Iter(x.base - 1, digits - 1)

\* operator+(n), before the constructor's assertion
operator_plus(x, n) ==
    LET sum   == x.position + n
        diff0 == TruncDiv(sum, digits)
        diff  == IF n < 0 /\ diff0 * digits # sum THEN diff0 - 1 ELSE diff0
    IN  Iter(x.base + diff, sum - diff * digits)

\* operator-(n), before the constructor's assertion
operator_minus(x, n) ==
    LET sum   == x.position - n
        diff0 == TruncDiv(sum, digits)
        diff  == IF n > 0 /\ diff0 * digits # sum THEN diff0 - 1 ELSE diff0
    IN  Iter(x.base + diff, sum - diff * digits)

\* operator[](n): the word and the bit the returned reference is made from,
\* before the bit_reference constructor's assertion
operator_subscript(x, n) ==
    LET sum   == x.position + n
        diff0 == TruncDiv(sum, digits)
        diff  == IF n < 0 /\ diff0 * digits # sum THEN diff0 - 1 ELSE diff0
    IN  Iter(x.base + diff, sum - diff * digits)

\* bit_reference(ref, pos): _ptr(&ref), _mask(static_cast<T>(1) << pos)
bit_reference(ptr, pos) == [ptr |-> ptr, mask |-> Trunc(Shl(1, pos), digits)]

\* mutant of bit_reference_reset: the mask is not complemented
bit_reference_reset_nocompl(m, r) ==
    [m EXCEPT ![r.ptr] = BitAnd(m[r.ptr], r.mask)]

\* bit_reference::set(): *_ptr |= _mask
bit_reference_set(m, r) ==
    [m EXCEPT ![r.ptr] = Trunc(BitOr(m[r.ptr], r.mask), digits)]

\* bit_reference::reset(): *_ptr &= ~_mask
bit_reference_reset(m, r) ==
    [m EXCEPT ![r.ptr] = BitAnd(m[r.ptr], BitNot(r.mask, digits))]

\* bit_reference::flip(): *_ptr ^= _mask
bit_reference_flip(m, r) ==
    [m EXCEPT ![r.ptr] = Trunc(BitXor(m[r.ptr], r.mask), digits)]

\* bit_reference::set(bool b): b ? set() : reset()
bit_reference_assign(m, r, b) ==
    IF b THEN bit_reference_set(m, r) ELSE bit_reference_reset(m, r)

\* bit_reference::operator bool: *_ptr & _mask
bit_reference_bool(m, r) == BitAnd(m[r.ptr], r.mask) # 0

\* mutant of _assert_range_viability: the words alone are compared
_assert_range_viability_words(f, l) == l.base >= f.base

\* _assert_range_viability: std::distance(first, last) >= 0
_assert_range_viability(f, l) == Difference(l, f) >= 0

\* iterators into the array, and the one-past-the-end iterator
ArrayIters ==
    {Iter(b, p) : b \in Idx, p \in 0 .. (digits - 1)} \cup {Iter(NumWords, 0)}

\* ------------------------------------------------------------------------
\* Bit algorithms (bit_algorithm.hpp)
\* ------------------------------------------------------------------------

\* *it for a word iterator; g is what a read past the array's end yields
Deref(m, i, g) == IF i \in DOMAIN m THEN m[i] ELSE g

RECURSIVE CountWords(_, _, _)
\* for (; it != last.base(); ++it) result += _popcnt(*it);
CountWords(m, it, lb) ==
    IF it = lb THEN 0 ELSE _popcnt(m[it]) + CountWords(m, it + 1, lb)

\* mutant of count: the partial last word is shifted by last.position()
count_lastshift(m, f, l, value, g) ==
    LET ones ==
            IF f.base # l.base
            THEN LET r1 == IF f.position # 0
                           THEN _popcnt(Shr(m[f.base], f.position))
                           ELSE 0
                     it == IF f.position # 0 THEN f.base + 1 ELSE f.base
                     r2 == CountWords(m, it, l.base)
                     r3 == IF l.position # 0
                           THEN _popcnt(Trunc(Shl(m[l.base], l.position),
                                              digits))
                           ELSE 0
                 IN  r1 + r2 + r3
            ELSE _popcnt(_bextr(Deref(m, f.base, g), f.position,
                                l.position - f.position))
    IN  IF ~value THEN Difference(l, f) - ones ELSE ones

\* mutant of count: zero bits are counted against whole words only
count_negwords(m, f, l, value, g) ==
    LET ones ==
            IF f.base # l.base
            THEN LET r1 == IF f.position # 0
                           THEN _popcnt(Shr(m[f.base], f.position))
                           ELSE 0
                     it == IF f.position # 0 THEN f.base + 1 ELSE f.base
                     r2 == CountWords(m, it, l.base)
                     r3 == IF l.position # 0
                           THEN _popcnt(Trunc(Shl(m[l.base],
                                                  digits - l.position),
                                              digits))
                           ELSE 0
                 IN  r1 + r2 + r3
            ELSE _popcnt(_bextr(Deref(m, f.base, g), f.position,
                                l.position - f.position))
    IN  IF ~value THEN (l.base - f.base) * digits - ones ELSE ones

\* mutant of count: within one word the field is taken from bit zero
count_fromzero(m, f, l, value, g) ==
    LET ones ==
            IF f.base # l.base
            THEN LET r1 == IF f.position # 0
                           THEN _popcnt(Shr(m[f.base], f.position))
                           ELSE 0
                     it == IF f.position # 0 THEN f.base + 1 ELSE f.base
                     r2 == CountWords(m, it, l.base)
                     r3 == IF l.position # 0
                           THEN _popcnt(Trunc(Shl(m[l.base],
                                                  digits - l.position),
                                              digits))
                           ELSE 0
                 IN  r1 + r2 + r3
            ELSE _popcnt(_bextr(Deref(m, f.base, g), 0,
                                l.position - f.position))
    IN  IF ~value THEN Difference(l, f) - ones ELSE ones

count(m, f, l, value, g) ==
    LET ones ==
            IF f.base # l.base
            THEN LET r1 == IF f.position # 0
                           THEN _popcnt(Shr(m[f.base], f.position))
                           ELSE 0
                     it == IF f.position # 0 THEN f.base + 1 ELSE f.base
                     r2 == CountWords(m, it, l.base)
                     r3 == IF l.position # 0
                           THEN _popcnt(Trunc(Shl(m[l.base],
                                                  digits - l.position),
                                              digits))
                           ELSE 0
                 IN  r1 + r2 + r3
            ELSE _popcnt(_bextr(Deref(m, f.base, g), f.position,
                                l.position - f.position))
    IN  IF ~value THEN Difference(l, f) - ones ELSE ones

\* std::reverse(b, e) on the words
ReverseWords(m, b, e) ==
    [i \in DOMAIN m |-> IF b <= i /\ i < e THEN m[b + e - 1 - i] ELSE m[i]]

RECURSIVE ShldLoop(_, _, _, _)
\* for (; it != last.base(); ++it) *it = _shld(*it, *std::next(it), gap);
\* *it <<= gap;
ShldLoop(m, it, lb, gap) ==
    IF it = lb
    THEN [m EXCEPT ![it] = Trunc(Shl(m[it], gap), digits)]
    ELSE ShldLoop([m EXCEPT ![it] = _shld(m[it], m[it + 1], gap)],
                  it + 1, lb, gap)

RECURSIVE ShrdLoop(_, _, _, _)
\* for (; it != first.base(); --it) *it = _shrd(*it, *std::prev(it), gap);
\* *it >>= gap;
ShrdLoop(m, it, fb, gap) ==
    IF it = fb
    THEN [m EXCEPT ![it] = Shr(m[it], gap)]
    ELSE ShrdLoop([m EXCEPT ![it] = _shrd(m[it], m[it - 1], gap)],
                  it - 1, fb, gap)

RECURSIVE BitswapLoop(_, _, _)
\* for (; it != end; ++it) *it = _bitswap(*it);
BitswapLoop(m, it, e) ==
    IF it = e THEN m
    ELSE BitswapLoop([m EXCEPT ![it] = _bitswap(m[it])], it + 1, e)

reverse(m, f, l) ==
    LET is_first_aligned == f.position = 0
        is_last_aligned  == l.position = 0
        gap   == (digits - l.position) * B2I(~is_last_aligned)
        fb    == f.base
        lb    == l.base
        lastw == lb - B2I(is_last_aligned)     \* std::prev(last.base(), ..)
        endw  == lb + B2I(~is_last_aligned)    \* std::next(last.base(), ..)
    IN  IF is_first_aligned /\ is_last_aligned
        THEN BitswapLoop(ReverseWords(m, fb, lb), fb, lb)
        ELSE IF fb # lb
        THEN LET first_value == m[fb]
                 last_value  == m[lastw]
                 m1 == ReverseWords(m, fb, endw)
                 m2 == IF f.position < gap
                       THEN ShldLoop(m1, fb, lb, gap - f.position)
                       ELSE IF f.position > gap
                       THEN ShrdLoop(m1, lastw, fb, f.position - gap)
                       ELSE m1
                 m3 == BitswapLoop(m2, fb, endw)
                 m4 == IF ~is_first_aligned
                       THEN [m3 EXCEPT ![fb] =
                                _bitblend(first_value, m3[fb], f.position,
                                          digits - f.position)]
                       ELSE m3
             IN  IF ~is_last_aligned
                 THEN [m4 EXCEPT ![lb] =
                          _bitblend(m4[lb], last_value, l.position,
                                    digits - l.position)]
                 ELSE m4
        ELSE [m EXCEPT ![fb] =
                 _bitblend(m[fb],
                           Shr(_bitswap(Trunc(Shr(m[fb], f.position),
                                              digits)), gap),
                           f.position, l.position - f.position)]

\* ------------------------------------------------------------------------
\* The caller: an array, a range over it, and calls of the algorithms
\* ------------------------------------------------------------------------

\* arrays with exactly one bit set
OneHot ==
    {[i \in Idx |-> IF i = w THEN Pow2(p) ELSE 0] :
        w \in Idx, p \in 0 .. (digits - 1)}

\* arrays of mixed words
Patterns == {176, 77}

Contents == OneHot \cup [Idx -> Patterns]

\* words a read one past the end of the array may return
Garbage == {0, 255}

NoOp == [op |-> "none", n |-> 0]

NoRef == [ptr |-> -1, mask |-> 0]

NoWrite == [i |-> -1, b |-> FALSE]

\* no bit_value operand
NoValue == <<>>

\* no operation on a reference yet
NoRop == [op |-> "none", flips |-> 0]

\* no comparison has been made yet
NoCmp == [o \in {} |-> 0]

\* no instruction arguments
NoArgs ==
    [kind |-> "none", dst |-> 0, src |-> 0, start |-> 0, len |-> 0,
     cnt |-> 0, msk |-> 0, udst |-> UZero, usrc |-> UZero, ub |-> "wrap"]

\* no instruction has returned yet
NoRet == [f |-> "none", v |-> 0, uv |-> UZero]

\* the reference registers at rest
RefIdle ==
    /\ wr = NoWrite
    /\ rd = Unread
    /\ ref2 = NoRef
    /\ val = NoValue
    /\ rop = NoRop

\* the comparison, pointer and instruction registers at rest
WordIdle ==
    /\ cmp = NoCmp
    /\ bptr = NoRef
    /\ args = NoArgs
    /\ ret = NoRet

\* no stream, no bitset and no bit_value under test
NoStream == [buf |-> <<>>]

NoBitset == [size |-> 0]

NoBitValue == [value |-> 0]

ExtIdle ==
    /\ strm = NoStream
    /\ bset = NoBitset
    /\ bval = NoBitValue
    /\ trace = <<>>

\* ++ or -- was applied to the object at: the last two are remembered
Traced(o, at) ==
    IF trace = <<>> THEN <<[op |-> o, at |-> at]>>
    ELSE <<[op |-> o, at |-> at], trace[1]>>

\* the iterator registers at rest, for the callers that do not use them
ItIdle ==
    /\ iter = Iter(0, 0)
    /\ p1 = iter
    /\ p2 = iter
    /\ op1 = NoOp
    /\ op2 = NoOp
    /\ ref = NoRef
    /\ chain = [from |-> iter, k |-> 0]

InitAlg ==
    /\ mem \in Contents
    /\ mem0 = mem
    /\ first \in ArrayIters
    /\ last \in ArrayIters
    /\ result = NotCounted
    /\ nrev = 0
    /\ ItIdle
    /\ RefIdle
    /\ WordIdle
    /\ ndebug = FALSE
    /\ pc = "run"
    /\ ExtIdle

\* count(first, last, bit_value(v))
Count(v) ==
    /\ pc = "run"
    /\ v \notin DOMAIN result
    /\ IF _assert_range_viability(first, last)
       THEN \E g \in Garbage :
                /\ result' = [x \in DOMAIN result \cup {v} |->
                                 IF x = v THEN count(mem, first, last, v, g)
                                 ELSE result[x]]
                /\ pc' = pc
       ELSE /\ pc' = "assert"
            /\ result' = result
    /\ UNCHANGED <<mem, mem0, first, last, nrev, itVars, refVars, wordVars,
                   ndebug, extVars>>

\* reverse(first, last)
Reverse ==
    /\ pc = "run"
    /\ nrev < MaxReverse
    /\ IF _assert_range_viability(first, last)
       THEN /\ mem' = reverse(mem, first, last)
            /\ nrev' = nrev + 1
            /\ result' = NotCounted
            /\ pc' = pc
       ELSE /\ pc' = "assert"
            /\ UNCHANGED <<mem, nrev, result>>
    /\ UNCHANGED <<mem0, first, last, itVars, refVars, wordVars, ndebug, extVars>>

NextAlg == (\E v \in BOOLEAN : Count(v)) \/ Reverse

SpecAlg == InitAlg /\ [][NextAlg]_vars

\* ------------------------------------------------------------------------
\* The caller: one iterator moved by ++, --, += n, -= n and read by iter[n]
\* ------------------------------------------------------------------------

Offsets == (-MaxN) .. MaxN

\* the caller keeps the bit iter asks for inside the array (or one past iter)
InArray(x, n) ==
    LET target == x.base * digits + x.position + n
    IN  0 <= target /\ target <= NumWords * digits

InitIt ==
    /\ mem = [i \in Idx |-> 0]
    /\ mem0 = mem
    /\ first = Iter(0, 0)
    /\ last = Iter(NumWords, 0)
    /\ result = NotCounted
    /\ nrev = 0
    /\ iter \in ArrayIters
    /\ p1 = iter
    /\ p2 = iter
    /\ op1 = NoOp
    /\ op2 = NoOp
    /\ ref = NoRef
    /\ chain = [from |-> iter, k |-> 0]
    /\ RefIdle
    /\ WordIdle
    /\ ndebug \in BOOLEAN
    /\ pc = "run"
    /\ ExtIdle

\* the iterator becomes r by the operation o; the operations that make r
\* with the constructor bit_iterator(i, pos) run its assertion
Moved(o, r, constructed) ==
    /\ p2' = IF o.op = "+=" /\ op1.op = "+=" THEN p1 ELSE iter
    /\ op2' = IF o.op = "+=" /\ op1.op = "+=" THEN op1 ELSE NoOp
    /\ p1' = iter
    /\ op1' = o
    /\ ref' = NoRef
    /\ IF constructed /\ ~ndebug /\ ~position_assert(r.position)
       THEN pc' = "assert" /\ iter' = iter
       ELSE pc' = pc /\ iter' = r
    /\ chain' = IF o.op = "++"
                THEN [from |-> chain.from, k |-> chain.k + 1]
                ELSE [from |-> iter', k |-> 0]
    /\ UNCHANGED <<algVars, refVars, wordVars, ndebug, extVars>>

\* ++iter
Inc ==
    /\ pc = "run"
    /\ InArray(iter, 1)
    /\ Moved([op |-> "++", n |-> 1], operator_inc(iter), FALSE)

\* --iter
Dec ==
    /\ pc = "run"
    /\ InArray(iter, -1)
    /\ Moved([op |-> "--", n |-> 1], operator_dec(iter), FALSE)

\* iter += n, that is *this = *this + n
PlusAssign(n) ==
    /\ pc = "run"
    /\ InArray(iter, n)
    /\ Moved([op |-> "+=", n |-> n], operator_plus(iter, n), TRUE)

\* iter -= n, that is *this = *this - n
MinusAssign(n) ==
    /\ pc = "run"
    /\ InArray(iter, -n)
    /\ Moved([op |-> "-=", n |-> n], operator_minus(iter, n), TRUE)

\* iter[n]: the reference is made by bit_reference(word, pos), which asserts
\* pos < digits
Subscript(n) ==
    /\ pc = "run"
    /\ InArray(iter, n)
    /\ LET t == operator_subscript(iter, n)
       IN  IF ~ndebug /\ ~position_assert(t.position)
           THEN pc' = "assert" /\ ref' = NoRef
           ELSE pc' = pc /\ ref' = bit_reference(t.base, t.position)
    /\ p2' = iter
    /\ op2' = NoOp
    /\ p1' = iter
    /\ op1' = [op |-> "[]", n |-> n]
    /\ chain' = [from |-> iter, k |-> 0]
    /\ UNCHANGED <<iter, algVars, refVars, wordVars, ndebug, extVars>>

NextIt ==
    \/ Inc
    \/ Dec
    \/ \E n \in Offsets : PlusAssign(n)
    \/ \E n \in Offsets : MinusAssign(n)
    \/ \E n \in Offsets : Subscript(n)

SpecIt == InitIt /\ [][NextIt]_vars

\* ------------------------------------------------------------------------
\* The caller: one bit written through a reference, then read back
\* ------------------------------------------------------------------------

InitRef ==
    /\ mem \in Contents
    /\ mem0 = mem
    /\ first = Iter(0, 0)
    /\ last = Iter(NumWords, 0)
    /\ result = NotCounted
    /\ nrev = 0
    /\ ItIdle
    /\ RefIdle
    /\ WordIdle
    /\ ndebug \in BOOLEAN
    /\ pc = "run"
    /\ ExtIdle

\* the write of b through the reference made from (word w, bit pos)
Written(w, pos, i, b) ==
    IF ~ndebug /\ ~position_assert(pos)
    THEN /\ pc' = "assert"
         /\ UNCHANGED <<mem, ref, wr>>
    ELSE /\ ref' = bit_reference(w, pos)
         /\ mem' = bit_reference_assign(mem, ref', b)
         /\ wr' = [i |-> i, b |-> b]
         /\ pc' = pc

\* bit_reference<T>(words[w], pos).set(b)
WriteRef(w, pos, b) ==
    /\ pc = "run"
    /\ wr = NoWrite
    /\ Written(w, pos, w * digits + pos, b)
    /\ UNCHANGED <<mem0, first, last, result, nrev, iter, p1, op1, p2, op2,
                   chain, rd, ref2, val, rop, wordVars, ndebug, extVars>>

\* begin[i].set(b), begin being the iterator at bit 0 of word 0
WriteIt(i, b) ==
    /\ pc = "run"
    /\ wr = NoWrite
    /\ LET t == operator_subscript(iter, i)
       IN  Written(t.base, t.position, i, b)
    /\ UNCHANGED <<mem0, first, last, result, nrev, iter, p1, op1, p2, op2,
                   chain, rd, ref2, val, rop, wordVars, ndebug, extVars>>

\* static_cast<bool>(bit_reference<T>(words[i / digits], i % digits))
ReadBack ==
    /\ pc = "run"
    /\ wr # NoWrite
    /\ rd = Unread
    /\ rd' = <<bit_reference_bool(mem,
                                  bit_reference(wr.i \div digits,
                                                wr.i % digits))>>
    /\ UNCHANGED <<algVars, itVars, wr, ref2, val, rop, wordVars, ndebug, extVars, pc>>

NextRef ==
    \/ \E w \in Idx, pos \in 0 .. (digits - 1), b \in BOOLEAN :
           WriteRef(w, pos, b)
    \/ \E i \in 0 .. (NumWords * digits - 1), b \in BOOLEAN : WriteIt(i, b)
    \/ ReadBack

SpecRef == InitRef /\ [][NextRef]_vars

\* ------------------------------------------------------------------------
\* Reference semantics the algorithms are compared with
\* ------------------------------------------------------------------------

\* bit number of an iterator, counted from bit 0 of word 0
BitIndex(i) == i.base * digits + i.position

\* direct bit indexing: (m[i / digits] >> (i % digits)) & 1
BitAt(m, i) == Shr(m[i \div digits], i % digits) % 2

AllBits == 0 .. (NumWords * digits - 1)

RangeBits == {i \in AllBits : BitIndex(first) <= i /\ i < BitIndex(last)}

NaiveCount(m, v) == Cardinality({i \in RangeBits : BitAt(m, i) = B2I(v)})

\* ------------------------------------------------------------------------
\* Properties of count and reverse
\* ------------------------------------------------------------------------

\* C1: whatever count(first, last, v) returned equals the number of bits of
\* [first, last) equal to v found by indexing every bit of the range.
T_CountNaive ==
    \A v \in DOMAIN result : result[v] = NaiveCount(mem, v)

\* C1 witness: ones were counted over a range that starts mid-word, covers a
\* whole word and ends mid-word, and some but not all of its bits are ones.
W_CountNaive ==
    /\ TRUE \in DOMAIN result
    /\ result[TRUE] > 0
    /\ result[TRUE] < Difference(last, first)
    /\ first.position # 0
    /\ last.position # 0
    /\ last.base > first.base + 1

\* C2: after one reverse(first, last), the bit at range offset k is the
\* original bit at range offset (last - first) - 1 - k.
T_ReverseBits ==
    nrev = 1 =>
        \A k \in 0 .. (Difference(last, first) - 1) :
            BitAt(mem, BitIndex(first) + k)
                = BitAt(mem0, BitIndex(last) - 1 - k)

\* C2 witness: one reverse over an unaligned range spanning several words
\* has changed the array.
W_ReverseBits ==
    /\ nrev = 1
    /\ first.position # 0
    /\ last.position # 0
    /\ last.base > first.base + 1
    /\ mem # mem0

\* C3: reverse leaves every bit outside [first, last) as it was.
T_ReverseFrame ==
    nrev >= 1 =>
        \A i \in AllBits \ RangeBits : BitAt(mem, i) = BitAt(mem0, i)

\* C3 witness: a reverse changed the array while set bits lie below first in
\* the first word and at or above last in the last word.
W_ReverseFrame ==
    /\ nrev = 1
    /\ mem # mem0
    /\ first.base # last.base
    /\ first.position # 0
    /\ last.position # 0
    /\ BitAt(mem0, BitIndex(first) - 1) = 1
    /\ BitAt(mem0, BitIndex(last)) = 1

\* C7: count(first, last, v) + count(first, last, not v) = last - first.
T_CountComplement ==
    DOMAIN result = BOOLEAN
        => result[TRUE] + result[FALSE] = Difference(last, first)

\* C7 witness: both counts were taken over a non-empty unaligned range and
\* both are positive.
W_CountComplement ==
    /\ DOMAIN result = BOOLEAN
    /\ result[TRUE] > 0
    /\ result[FALSE] > 0
    /\ first.position # 0
    /\ last.position # 0

\* C8: reverse(first, last) applied twice restores the whole array.
T_ReverseTwice == nrev = 2 => mem = mem0

\* C8 witness: the second reverse over a range spanning several words has
\* been made, and the array is not a fixed point of one reverse.
W_ReverseTwice ==
    /\ nrev = 2
    /\ last.base > first.base
    /\ first.position # 0
    /\ reverse(mem, first, last) # mem

\* C16: in a build with assertions, count and reverse on a range with
\* last - first < 0 fail the range assertion with no result returned and no
\* word changed, and the assertion fails for no range with last - first >= 0.
T_RangeViability ==
    ~ndebug =>
        /\ Difference(last, first) < 0 =>
               (mem = mem0 /\ nrev = 0 /\ result = NotCounted)
        /\ pc = "assert" =>
               (Difference(last, first) < 0 /\ mem = mem0 /\ nrev = 0)

\* C16 witness: the assertion has failed for a range whose last is at a
\* lower bit of the word that first is in, over an array with a set bit
\* between them.
W_RangeViability ==
    /\ pc = "assert"
    /\ first.base = last.base
    /\ last.position < first.position
    /\ BitAt(mem, BitIndex(last)) = 1

\* ------------------------------------------------------------------------
\* Properties of iterator arithmetic
\* ------------------------------------------------------------------------

\* the iterator k bits away from x, by floor division
FloorTarget(x, k) ==
    LET sum == x.position + k
    IN  Iter(x.base + (sum \div digits), sum % digits)

\* C4: from an iterator with position < digits, it + n, it - n and it[n]
\* address word base + floor((p +/- n) / digits) and bit
\* (p +/- n) - digits * floor((p +/- n) / digits), for n of either sign.
C_OffsetFloor ==
    p1.position < digits =>
        /\ op1.op = "+=" =>
               (pc = "run" /\ iter = FloorTarget(p1, op1.n))
        /\ op1.op = "-=" =>
               (pc = "run" /\ iter = FloorTarget(p1, -op1.n))
        /\ op1.op = "[]" =>
               (pc = "run" /\
                ref = bit_reference(FloorTarget(p1, op1.n).base,
                                    FloorTarget(p1, op1.n).position))

\* C5: after any sequence of ++, --, += n and -= n the position is again in
\* [0, digits) and the constructor's assertion has not failed.
C_PositionInRange ==
    op1.op \in {"none", "++", "--", "+=", "-="} =>
        (pc = "run" /\ 0 <= iter.position /\ iter.position < digits)

\* C9: (a + n) - a == n for every iterator a with position < digits and
\* every n: a + n yields an iterator, and its distance from a is n.
C_PlusThenDifference ==
    (op1.op = "+=" /\ p1.position < digits) =>
        (pc = "run" /\ Difference(iter, p1) = op1.n)

\* C10: (a + m) + n == a + (m + n): both sides yield an iterator, with the
\* same base and the same position.
C_PlusAssociates ==
    (op1.op = "+=" /\ op2.op = "+=" /\ p2.position < digits) =>
        LET rhs == operator_plus(p2, op2.n + op1.n)
        IN  /\ pc = "run"
            /\ (ndebug \/ position_assert(rhs.position))
            /\ iter.base = rhs.base
            /\ iter.position = rhs.position

\* C12: digits applications of ++ to an iterator at (base, 0) yield
\* (base + 1, 0); after k < digits of them the iterator is at (base, k).
T_IncWord ==
    (chain.from.position = 0 /\ chain.k >= 1 /\ chain.k <= digits) =>
        /\ pc = "run"
        /\ iter = IF chain.k < digits
                  THEN Iter(chain.from.base, chain.k)
                  ELSE Iter(chain.from.base + 1, 0)

\* C12 witness: ++ has been applied digits times in a row to the iterator
\* that was at bit 0 of word 1.
W_IncWord ==
    /\ chain.from = Iter(1, 0)
    /\ chain.k = digits
    /\ op1.op = "++"
    /\ iter.base = 2

\* ------------------------------------------------------------------------
\* Properties of bit references
\* ------------------------------------------------------------------------

\* C6: after true or false was written through a reference (or iterator[i])
\* at bit i, a fresh reference at i reads the written value, and every other
\* bit of the array is as before the write.
T_RoundTrip ==
    wr # NoWrite =>
        /\ rd # Unread => rd[1] = wr.b
        /\ \A j \in AllBits \ {wr.i} : BitAt(mem, j) = BitAt(mem0, j)

\* C6 witness: a write that changed the bit has been read back, in a word
\* that holds other set bits.
W_RoundTrip ==
    /\ wr # NoWrite
    /\ rd # Unread
    /\ mem # mem0
    /\ wr.i % digits # 0
    /\ _popcnt(mem0[wr.i \div digits]) > 1

\* ------------------------------------------------------------------------
\* The caller: two iterators over the same words, compared and subtracted
\* ------------------------------------------------------------------------

\* operator==(lhs, rhs)
operator_eq(lhs, rhs) ==
    lhs.base = rhs.base /\ lhs.position = rhs.position

\* mutant of operator_lt: the words alone are compared
operator_lt_words(lhs, rhs) == lhs.base < rhs.base

\* operator<(lhs, rhs)
operator_lt(lhs, rhs) ==
    \/ lhs.base < rhs.base
    \/ (lhs.base = rhs.base /\ lhs.position < rhs.position)

\* the frame of a comparison
Compared(o, r) ==
    /\ pc = "run"
    /\ o \notin DOMAIN cmp
    /\ cmp' = [x \in DOMAIN cmp \cup {o} |-> IF x = o THEN r ELSE cmp[x]]
    /\ UNCHANGED <<algVars, itVars, refVars, bptr, args, ret, ndebug, extVars, pc>>

InitCmp ==
    /\ mem = [i \in Idx |-> 0]
    /\ mem0 = mem
    /\ first \in ArrayIters
    /\ last \in ArrayIters
    /\ result = NotCounted
    /\ nrev = 0
    /\ ItIdle
    /\ RefIdle
    /\ WordIdle
    /\ ndebug \in BOOLEAN
    /\ pc = "run"
    /\ ExtIdle

\* first < last
Less == Compared("<", operator_lt(first, last))

\* first == last
Equal == Compared("==", operator_eq(first, last))

\* last - first
Distance == Compared("-", Difference(last, first))

NextCmp == Less \/ Equal \/ Distance

SpecCmp == InitCmp /\ [][NextCmp]_vars

\* C11: for iterators a, b over the same words with positions below digits,
\* a < b exactly when b - a > 0, and a == b exactly when b - a == 0.
T_OrderDifference ==
    (first.position < digits /\ last.position < digits) =>
        /\ ({"<", "-"} \subseteq DOMAIN cmp) => (cmp["<"] <=> cmp["-"] > 0)
        /\ ({"==", "-"} \subseteq DOMAIN cmp) => (cmp["=="] <=> cmp["-"] = 0)

\* C11 witness: a is in a later word than b but at a lower position, and
\* a < b, a == b and b - a have all been evaluated.
W_OrderDifference ==
    /\ DOMAIN cmp = {"<", "==", "-"}
    /\ first.base > last.base
    /\ first.position < last.position
    /\ ~cmp["<"]
    /\ cmp["-"] < 0

\* ------------------------------------------------------------------------
\* Bit pointer (bit_pointer.hpp), and the caller moving one pointer
\* ------------------------------------------------------------------------

\* bit_reference(underlying_type* ptr, size_type pos), after its assertion
bit_reference_ctor(ptr, pos) == bit_reference(ptr, pos)

\* bit_reference::position(): __builtin_ctz(_mask)
bit_reference_position(r) == builtin_ctz(r.mask)

\* bit_pointer(ptr, pos): _ref(ptr, pos)
bit_pointer(ptr, pos) == bit_reference_ctor(ptr, pos)

\* mutant of bit_pointer_inc: the shifted mask is added to the mask
bit_pointer_inc_or(p) ==
    IF bit_reference_position(p) + 1 < digits
    THEN [ptr |-> p.ptr, mask |-> Trunc(BitOr(p.mask, Shl(p.mask, 1)), digits)]
    ELSE [ptr |-> p.ptr + 1, mask |-> 1]

\* bit_pointer::operator++ on the pointer whose _ref is p
bit_pointer_inc(p) ==
    IF bit_reference_position(p) + 1 < digits
    THEN [ptr |-> p.ptr, mask |-> Trunc(Shl(p.mask, 1), digits)]
    ELSE [ptr |-> p.ptr + 1, mask |-> 1]

\* bit_pointer::operator--
bit_pointer_dec(p) ==
    IF bit_reference_position(p) # 0
    THEN [ptr |-> p.ptr, mask |-> Shr(p.mask, 1)]
    ELSE [ptr |-> p.ptr - 1, mask |-> Trunc(Shl(1, digits - 1), digits)]

\* bit_pointer::operator*: return _ref
bit_pointer_deref(p) == p

\* the bit a reference designates, counted from bit 0 of word 0
RefIndex(r) == r.ptr * digits + bit_reference_position(r)

InitPtr ==
    /\ mem = [i \in Idx |-> 0]
    /\ mem0 = mem
    /\ first = Iter(0, 0)
    /\ last = Iter(NumWords, 0)
    /\ result = NotCounted
    /\ nrev = 0
    /\ ItIdle
    /\ RefIdle
    /\ cmp = NoCmp
    /\ bptr = bit_pointer(1, 3)
    /\ args = NoArgs
    /\ ret = NoRet
    /\ ndebug \in BOOLEAN
    /\ pc = "run"
    /\ ExtIdle

\* ++p, the caller keeping p inside the array or one past it
PtrInc ==
    /\ pc = "run"
    /\ bptr # NoRef
    /\ RefIndex(bptr) < NumWords * digits
    /\ bptr' = bit_pointer_inc(bptr)
    /\ trace' = Traced("++", bptr)
    /\ UNCHANGED <<algVars, itVars, refVars, cmp, args, ret, ndebug, strm,
                   bset, bval, pc>>

\* --p
PtrDec ==
    /\ pc = "run"
    /\ bptr # NoRef
    /\ RefIndex(bptr) > 0
    /\ bptr' = bit_pointer_dec(bptr)
    /\ trace' = Traced("--", bptr)
    /\ UNCHANGED <<algVars, itVars, refVars, cmp, args, ret, ndebug, strm,
                   bset, bval, pc>>

\* *p
PtrDeref ==
    /\ pc = "run"
    /\ ref' = bit_pointer_deref(bptr)
    /\ rop' = [op |-> "*", flips |-> 0]
    /\ UNCHANGED <<algVars, iter, p1, op1, p2, op2, chain, wr, rd, ref2, val,
                   wordVars, ndebug, extVars, pc>>

\* bit_reference<T>(words[w], pos) with pos < digits
MakeRef(w, pos) ==
    /\ pc = "run"
    /\ ref' = bit_reference(w, pos)
    /\ rop' = [op |-> "bit_reference", flips |-> 0]
    /\ UNCHANGED <<algVars, iter, p1, op1, p2, op2, chain, wr, rd, ref2, val,
                   wordVars, ndebug, extVars, pc>>

NextPtr ==
    \/ PtrInc
    \/ PtrDec
    \/ PtrDeref
    \/ \E w \in Idx, pos \in 0 .. (digits - 1) : MakeRef(w, pos)

SpecPtr == InitPtr /\ [][NextPtr]_vars

\* C13: the mask of a reference made from (word, pos) with pos < digits, of
\* the pointer's own reference after any ++ and --, and of what *p returns,
\* has exactly one set bit, and position() is the index of that bit, below
\* digits.
T_MaskOneBit ==
    \A r \in {ref, bptr} \ {NoRef} :
        /\ _popcnt(r.mask) = 1
        /\ bit_reference_position(r) \in 0 .. (digits - 1)
        /\ r.mask = Pow2(bit_reference_position(r))

\* C13 witness: *p was taken after -- had moved the pointer from bit 3 of
\* word 1 into the top bit of word 0.
W_MaskOneBit ==
    /\ rop.op = "*"
    /\ ref = bptr
    /\ ref.ptr = 0
    /\ ref.mask = Pow2(digits - 1)

\* ------------------------------------------------------------------------
\* The caller: one assignment or one swap on a bit reference
\* ------------------------------------------------------------------------

\* mutant of bit_reference_operator_assign: the binding is copied
bit_reference_rebind(m, r, other) == [mem |-> m, ref |-> other]

\* bit_reference::operator=(const bit_reference& other):
\* other ? set() : reset(); return *this;
bit_reference_operator_assign(m, r, other) ==
    [mem |-> bit_reference_assign(m, r, bit_reference_bool(m, other)),
     ref |-> r]

\* bit_reference::operator=(bit_value val): val ? set() : reset();
bit_reference_operator_assign_value(m, r, v) ==
    [mem |-> bit_reference_assign(m, r, v), ref |-> r]

\* mutant of bit_reference_swap: both bits are flipped in every case
bit_reference_swap_always(m, r, other) ==
    [mem |-> bit_reference_flip(bit_reference_flip(m, r), other), flips |-> 2]

\* bit_reference::swap(bit_reference<T> other):
\* if (other != *this) { flip(); other.flip(); }
bit_reference_swap(m, r, other) ==
    IF bit_reference_bool(m, other) # bit_reference_bool(m, r)
    THEN [mem |-> bit_reference_flip(bit_reference_flip(m, r), other),
          flips |-> 2]
    ELSE [mem |-> m, flips |-> 0]

\* swap(bit_reference<T> lhs, bit_reference<U> rhs):
\* if (lhs != rhs) { lhs.flip(); rhs.flip(); }
swap_references(m, lhs, rhs) ==
    IF bit_reference_bool(m, lhs) # bit_reference_bool(m, rhs)
    THEN [mem |-> bit_reference_flip(bit_reference_flip(m, lhs), rhs),
          flips |-> 2]
    ELSE [mem |-> m, flips |-> 0]

\* bit_reference::swap(bit_value& other):
\* if (other != *this) { flip(); other.flip(); }
bit_reference_swap_value(m, r, v) ==
    IF v # bit_reference_bool(m, r)
    THEN [mem |-> bit_reference_flip(m, r), val |-> ~v, flips |-> 2]
    ELSE [mem |-> m, val |-> v, flips |-> 0]

\* swap(bit_reference<T> lhs, bit_value& rhs)
swap_reference_value(m, lhs, v) ==
    IF bit_reference_bool(m, lhs) # v
    THEN [mem |-> bit_reference_flip(m, lhs), val |-> ~v, flips |-> 2]
    ELSE [mem |-> m, val |-> v, flips |-> 0]

\* swap(bit_value& lhs, bit_reference<U> rhs)
swap_value_reference(m, v, rhs) ==
    IF v # bit_reference_bool(m, rhs)
    THEN [mem |-> bit_reference_flip(m, rhs), val |-> ~v, flips |-> 2]
    ELSE [mem |-> m, val |-> v, flips |-> 0]

\* the references the caller makes: bit_reference<T>(words[w], pos)
Refs == {bit_reference(w, pos) : w \in Idx, pos \in 0 .. (digits - 1)}

\* arrays of mixed words, one of them unlike the others
OneOdd == {[i \in Idx |-> IF i = w THEN 176 ELSE 77] : w \in Idx}

InitBind ==
    /\ mem \in OneOdd
    /\ mem0 = mem
    /\ first = Iter(0, 0)
    /\ last = Iter(NumWords, 0)
    /\ result = NotCounted
    /\ nrev = 0
    /\ ItIdle
    /\ RefIdle
    /\ WordIdle
    /\ ndebug \in BOOLEAN
    /\ pc = "run"
    /\ ExtIdle

\* the frame of an operation o on the reference r: wr keeps the bit r was
\* bound to and the bit value the caller passed
Bound(o, r, s, v, flips) ==
    /\ pc = "run"
    /\ rop = NoRop
    /\ rop' = [op |-> o, flips |-> flips]
    /\ ref2' = s
    /\ wr' = [i |-> RefIndex(r), b |-> v]
    /\ UNCHANGED <<mem0, first, last, result, nrev, iter, p1, op1, p2, op2,
                   chain, rd, wordVars, ndebug, extVars, pc>>

\* r = s
AssignRef(r, s) ==
    LET o == bit_reference_operator_assign(mem, r, s)
    IN  /\ Bound("=", r, s, FALSE, 0)
        /\ mem' = o.mem
        /\ ref' = o.ref
        /\ val' = NoValue

\* r = bit_value(b)
AssignValue(r, b) ==
    LET o == bit_reference_operator_assign_value(mem, r, b)
    IN  /\ Bound("=", r, NoRef, b, 0)
        /\ mem' = o.mem
        /\ ref' = o.ref
        /\ val' = <<b>>

\* r.swap(s)
SwapMember(r, s) ==
    LET o == bit_reference_swap(mem, r, s)
    IN  /\ Bound("r.swap(s)", r, s, FALSE, o.flips)
        /\ mem' = o.mem
        /\ ref' = r
        /\ val' = NoValue

\* swap(r, s)
SwapFree(r, s) ==
    LET o == swap_references(mem, r, s)
    IN  /\ Bound("swap(r, s)", r, s, FALSE, o.flips)
        /\ mem' = o.mem
        /\ ref' = r
        /\ val' = NoValue

\* r.swap(v) for a bit_value v holding b
SwapMemberValue(r, b) ==
    LET o == bit_reference_swap_value(mem, r, b)
    IN  /\ Bound("r.swap(v)", r, NoRef, b, o.flips)
        /\ mem' = o.mem
        /\ ref' = r
        /\ val' = <<o.val>>

\* swap(r, v)
SwapFreeRefValue(r, b) ==
    LET o == swap_reference_value(mem, r, b)
    IN  /\ Bound("swap(r, v)", r, NoRef, b, o.flips)
        /\ mem' = o.mem
        /\ ref' = r
        /\ val' = <<o.val>>

\* swap(v, r)
SwapFreeValueRef(b, r) ==
    LET o == swap_value_reference(mem, b, r)
    IN  /\ Bound("swap(v, r)", r, NoRef, b, o.flips)
        /\ mem' = o.mem
        /\ ref' = r
        /\ val' = <<o.val>>

NextBind ==
    \/ \E r \in Refs, s \in Refs : AssignRef(r, s)
    \/ \E r \in Refs, b \in BOOLEAN : AssignValue(r, b)
    \/ \E r \in Refs, s \in Refs : SwapMember(r, s)
    \/ \E r \in Refs, s \in Refs : SwapFree(r, s)
    \/ \E r \in Refs, b \in BOOLEAN : SwapMemberValue(r, b)
    \/ \E r \in Refs, b \in BOOLEAN : SwapFreeRefValue(r, b)
    \/ \E r \in Refs, b \in BOOLEAN : SwapFreeValueRef(b, r)

SpecBind == InitBind /\ [][NextBind]_vars

\* the swaps of a reference with a reference or a bit value
Swaps == {"r.swap(s)", "swap(r, s)", "r.swap(v)", "swap(r, v)", "swap(v, r)"}

\* the value the source of the operation had before it
SourceBefore ==
    IF ref2 # NoRef THEN BitAt(mem0, RefIndex(ref2)) ELSE B2I(wr.b)

\* C14: after r = s or r = v, r is bound to the same word and position as
\* before, the bit of r equals the value the source had, and every other bit
\* of the array is unchanged.
T_AssignValueOnly ==
    rop.op = "=" =>
        /\ ref.ptr = wr.i \div digits
        /\ bit_reference_position(ref) = wr.i % digits
        /\ BitAt(mem, wr.i) = SourceBefore
        /\ \A j \in AllBits \ {wr.i} : BitAt(mem, j) = BitAt(mem0, j)

\* C14 witness: r was assigned from a reference to another bit of the same
\* word, and its bit changed.
W_AssignValueOnly ==
    /\ rop.op = "="
    /\ ref2 # NoRef
    /\ ref2.ptr = ref.ptr
    /\ ref2.mask # ref.mask
    /\ mem # mem0

InitWord ==
    LET SmallWords == {0, 1, 77, 128, 176, 255}
        UWords     == {UFromHalves(hi, lo) :
                          hi \in {0, 32768, 61680}, lo \in {1, 61680}}
        UShifts    == {0, 1, uint_digits - 1, uint_digits, uint_digits + 1}
        Counts     == 0 .. (2 * digits + 1)
        UCounts    == 0 .. (2 * uint_digits + 1)
        Args(k, d, w, st, ln, c, ud, uw, ub) ==
            [kind |-> k, dst |-> d, src |-> w, start |-> st, len |-> ln,
             cnt |-> c, msk |-> 0, udst |-> ud, usrc |-> uw, ub |-> ub]
    IN  /\ mem = [i \in Idx |-> 0]
        /\ mem0 = mem
        /\ first = Iter(0, 0)
        /\ last = Iter(NumWords, 0)
        /\ result = NotCounted
        /\ nrev = 0
        /\ ItIdle
        /\ RefIdle
        /\ cmp = NoCmp
        /\ bptr = NoRef
        /\ \/ \E w \in Word :
                  args = Args("word", 0, w, 0, 0, 0, UZero, UZero, "wrap")
           \/ \E w \in SmallWords, st \in 0 .. MaxShift, ln \in 0 .. MaxShift :
                  args = Args("field", 0, w, st, ln, 0, UZero, UZero, "wrap")
           \/ \E d \in SmallWords, w \in SmallWords, c \in Counts :
                  args = Args("shift", d, w, 0, 0, c, UZero, UZero, "wrap")
           \/ \E uw \in UWords, st \in UShifts, ln \in UShifts,
                 ub \in ShiftModes :
                  args = Args("ufield", 0, 0, st, ln, 0, UZero, uw, ub)
           \/ \E ud \in UWords, uw \in UWords, c \in UCounts,
                 ub \in ShiftModes :
                  args = Args("ushift", 0, 0, 0, 0, c, ud, uw, ub)
           \/ \E d \in SmallWords, w \in SmallWords, k \in Word :
                  args = [Args("mask", d, w, 0, 0, 0, UZero, UZero, "wrap")
                              EXCEPT !.msk = k]
           \/ \E d \in SmallWords, w \in SmallWords,
                 st \in 0 .. MaxShift, ln \in 0 .. MaxShift :
                  args = Args("blend", d, w, st, ln, 0, UZero, UZero, "wrap")
           \/ \E ud \in UWords, uw \in UWords, st \in UShifts,
                 ln \in UShifts, ub \in ShiftModes :
                  args = Args("ublend", 0, 0, st, ln, 0, ud, uw, ub)
        /\ ret = NoRet
        /\ ndebug \in BOOLEAN
        /\ pc = "run"
        /\ ExtIdle

\* the frame of an instruction f on arguments of kind k
Returned(k, f, v, uv) ==
    /\ pc = "run"
    /\ args.kind = k
    /\ ret = NoRet
    /\ ret' = [f |-> f, v |-> v, uv |-> uv]
    /\ UNCHANGED <<algVars, itVars, refVars, cmp, bptr, args, ndebug, extVars, pc>>

Popcnt == Returned("word", "_popcnt", _popcnt(args.src), UZero)

PopcntIntrinsic ==
    Returned("word", "_popcnt_intrinsic", _popcnt_intrinsic(args.src), UZero)

Lzcnt == Returned("word", "_lzcnt", _lzcnt(args.src), UZero)

LzcntIntrinsic ==
    Returned("word", "_lzcnt_intrinsic", _lzcnt_intrinsic(args.src), UZero)

Tzcnt == Returned("word", "_tzcnt", _tzcnt(args.src), UZero)

TzcntIntrinsic ==
    Returned("word", "_tzcnt_intrinsic", _tzcnt_intrinsic(args.src), UZero)

\* _bitswap(src) as instantiated for unsigned char
Bitswap == Returned("word", "_bitswap", _bitswap(args.src), UZero)

\* _bitswap<T, digits>(src)
BitswapRec ==
    Returned("word", "_bitswap_rec", _bitswap_rec(args.src, digits), UZero)

\* T dst = src; T i = digits - 1; for (src >>= 1; ...
BitswapBits ==
    Returned("word", "_bitswap_loop",
             _bitswap_loop(args.src \div 2, args.src, digits - 1), UZero)

Bextr ==
    Returned("field", "_bextr", _bextr(args.src, args.start, args.len), UZero)

Shld == Returned("shift", "_shld", _shld(args.dst, args.src, args.cnt), UZero)

Shrd == Returned("shift", "_shrd", _shrd(args.dst, args.src, args.cnt), UZero)

BextrUInt ==
    Returned("ufield", "_bextr_uint", 0,
             _bextr_uint(args.usrc, args.start, args.len, args.ub))

ShldUInt ==
    Returned("ushift", "_shld_uint", 0,
             _shld_uint(args.udst, args.usrc, args.cnt, args.ub))

ShrdUInt ==
    Returned("ushift", "_shrd_uint", 0,
             _shrd_uint(args.udst, args.usrc, args.cnt, args.ub))

BitblendMask ==
    Returned("mask", "_bitblend_mask",
             _bitblend_mask(args.dst, args.src, args.msk), UZero)

Bitblend ==
    Returned("blend", "_bitblend",
             _bitblend(args.dst, args.src, args.start, args.len), UZero)

BitblendUInt ==
    Returned("ublend", "_bitblend_uint", 0,
             _bitblend_uint(args.udst, args.usrc, args.start, args.len,
                            args.ub))

NextWord ==
    \/ Popcnt
    \/ PopcntIntrinsic
    \/ Lzcnt
    \/ LzcntIntrinsic
    \/ Tzcnt
    \/ TzcntIntrinsic
    \/ Bitswap
    \/ BitswapRec
    \/ BitswapBits
    \/ Bextr
    \/ Shld
    \/ Shrd
    \/ BextrUInt
    \/ ShldUInt
    \/ ShrdUInt
    \/ BitblendMask
    \/ Bitblend
    \/ BitblendUInt

SpecWord == InitWord /\ [][NextWord]_vars

\* ------------------------------------------------------------------------
\* The caller: a deposit or an extraction under every mask
\* ------------------------------------------------------------------------

InitDeposit ==
    /\ mem = [i \in Idx |-> 0]
    /\ mem0 = mem
    /\ first = Iter(0, 0)
    /\ last = Iter(NumWords, 0)
    /\ result = NotCounted
    /\ nrev = 0
    /\ ItIdle
    /\ RefIdle
    /\ cmp = NoCmp
    /\ bptr = NoRef
    /\ \E w \in Word, k \in Word :
           args = [NoArgs EXCEPT !.kind = "deposit", !.src = w, !.msk = k]
    /\ ret = NoRet
    /\ ndebug = FALSE
    /\ pc = "run"
    /\ ExtIdle

Pdep == Returned("deposit", "_pdep", _pdep(args.src, args.msk), UZero)

Pext == Returned("deposit", "_pext", _pext(args.src, args.msk), UZero)

NextDeposit ==
    \/ Pdep
    \/ Pext

SpecDeposit == InitDeposit /\ [][NextDeposit]_vars

\* ------------------------------------------------------------------------
\* Reference semantics of the word instructions
\* ------------------------------------------------------------------------

WordBits == 0 .. (digits - 1)

\* the bits of an unsigned char, bit i at index i
ByteBits(w) == [i \in WordBits |-> BitOf(w, i)]

\* the number of set bits of w
SetBitCount(w) == Cardinality({i \in WordBits : BitOf(w, i) = 1})

\* the number of zero bits of w from the most significant end
LeadingZeros(w) ==
    Cardinality({i \in WordBits :
                    \A j \in i .. (digits - 1) : BitOf(w, j) = 0})

\* the number of zero bits of w from the least significant end
TrailingZeros(w) ==
    Cardinality({i \in WordBits : \A j \in 0 .. i : BitOf(w, j) = 0})

\* bit j of the 2d-bit value hi * 2^d + lo
DoubleBit(hi, lo, d, j) ==
    IF j < 0 \/ j >= 2 * d THEN 0 ELSE IF j < d THEN lo[j] ELSE hi[j - d]

\* bit i of the high d bits of ((dst * 2^d + src) << cnt) modulo 2^(2d)
ShldBit(dst, src, d, cnt, i) == DoubleBit(dst, src, d, d + i - cnt)

\* bit i of the low d bits of (src * 2^d + dst) >> cnt
ShrdBit(dst, src, d, cnt, i) == DoubleBit(src, dst, d, i + cnt)

\* ------------------------------------------------------------------------
\* Properties of the word instructions
\* ------------------------------------------------------------------------

\* C17: for every word, _popcnt, _lzcnt and _tzcnt return with and without
\* compiler intrinsics the number of set bits, of leading zero bits and of
\* trailing zero bits (digits for both zero counts of the word 0).
T_CountsAgree ==
    /\ ret.f \in {"_popcnt", "_popcnt_intrinsic"} =>
           ret.v = SetBitCount(args.src)
    /\ ret.f \in {"_lzcnt", "_lzcnt_intrinsic"} =>
           ret.v = LeadingZeros(args.src)
    /\ ret.f \in {"_tzcnt", "_tzcnt_intrinsic"} =>
           ret.v = TrailingZeros(args.src)

\* C17 witness: the portable _lzcnt has counted three leading zeros of a
\* word with several set bits.
W_CountsAgree ==
    /\ ret.f = "_lzcnt"
    /\ ret.v = 3
    /\ SetBitCount(args.src) > 2

\* C18: for every word and each of the three strategies, bit i of the
\* swapped word is bit digits - 1 - i of the word.
T_BitswapReverses ==
    ret.f \in {"_bitswap", "_bitswap_rec", "_bitswap_loop"} =>
        /\ ret.v \in Word
        /\ \A i \in WordBits :
               BitOf(ret.v, i) = BitOf(args.src, digits - 1 - i)

\* C18 witness: the bit by bit loop has swapped a word with leading zeros
\* into a different word.
W_BitswapReverses ==
    /\ ret.f = "_bitswap_loop"
    /\ args.src = 77
    /\ ret.v = 178

\* C19: the portable _bextr returns 0 when start >= digits, else
\* floor(src / 2^start) modulo 2^len when len < digits and
\* floor(src / 2^start) when len >= digits; for unsigned char and, whatever
\* a shift by 32 or more yields, for unsigned int.
T_BextrField ==
    /\ ret.f = "_bextr" =>
           ret.v = IF args.start >= digits THEN 0
                   ELSE IF args.len < digits
                        THEN Shr(args.src, args.start) % Pow2(args.len)
                        ELSE Shr(args.src, args.start)
    /\ ret.f = "_bextr_uint" =>
           \A i \in UIntBits :
               ret.uv[i] =
                   IF args.start >= uint_digits THEN 0
                   ELSE IF args.len < uint_digits /\ i >= args.len THEN 0
                   ELSE IF i + args.start < uint_digits
                        THEN args.usrc[i + args.start]
                        ELSE 0

\* C19 witness: a field of 2 or more bits was taken from inside a word, and
\* it is neither empty nor all of the bits above start.
W_BextrField ==
    /\ ret.f = "_bextr"
    /\ args.start > 0
    /\ args.len > 1
    /\ args.start + args.len < digits
    /\ ret.v > 0
    /\ ret.v # Shr(args.src, args.start)

\* C20: for cnt in [0, 2 * digits], _shld returns the high digits bits of
\* ((dst * 2^digits + src) << cnt) modulo 2^(2 * digits) and _shrd the low
\* digits bits of (src * 2^digits + dst) >> cnt, for unsigned char and for
\* unsigned int words.
C_DoubleShift ==
    /\ (ret.f = "_shld" /\ args.cnt <= 2 * digits) =>
           \A i \in WordBits :
               BitOf(ret.v, i) = ShldBit(ByteBits(args.dst),
                                         ByteBits(args.src),
                                         digits, args.cnt, i)
    /\ (ret.f = "_shrd" /\ args.cnt <= 2 * digits) =>
           \A i \in WordBits :
               BitOf(ret.v, i) = ShrdBit(ByteBits(args.dst),
                                         ByteBits(args.src),
                                         digits, args.cnt, i)
    /\ (ret.f = "_shld_uint" /\ args.cnt <= 2 * uint_digits) =>
           \A i \in UIntBits :
               ret.uv[i] = ShldBit(args.udst, args.usrc,
                                   uint_digits, args.cnt, i)
    /\ (ret.f = "_shrd_uint" /\ args.cnt <= 2 * uint_digits) =>
           \A i \in UIntBits :
               ret.uv[i] = ShrdBit(args.udst, args.usrc,
                                   uint_digits, args.cnt, i)

\* C21: bit i of _bitblend(src0, src1, msk) is bit i of src1 where bit i of
\* msk is 1 and bit i of src0 elsewhere; _bitblend(src0, src1, start, len)
\* is the same with the mask of the bits [start, min(start + len, digits)),
\* hence src0 when start >= digits or len = 0; for unsigned char and, whatever
\* a shift by 32 or more yields, for unsigned int.
T_BitblendSelects ==
    /\ ret.f = "_bitblend_mask" =>
           \A i \in WordBits :
               BitOf(ret.v, i) = IF BitOf(args.msk, i) = 1
                                 THEN BitOf(args.src, i)
                                 ELSE BitOf(args.dst, i)
    /\ ret.f = "_bitblend" =>
           /\ \A i \in WordBits :
                  BitOf(ret.v, i) =
                      IF args.start <= i /\ i < args.start + args.len
                      THEN BitOf(args.src, i)
                      ELSE BitOf(args.dst, i)
           /\ (args.start >= digits \/ args.len = 0) => ret.v = args.dst
    /\ ret.f = "_bitblend_uint" =>
           /\ \A i \in UIntBits :
                  ret.uv[i] =
                      IF args.start <= i /\ i < args.start + args.len
                      THEN args.usrc[i]
                      ELSE args.udst[i]
           /\ (args.start >= uint_digits \/ args.len = 0) =>
                  ret.uv = args.udst

\* C21 witness: a field that starts inside the word and runs past its end
\* was blended, and the result is neither of the two words.
W_BitblendSelects ==
    /\ ret.f = "_bitblend"
    /\ args.start > 0
    /\ args.start < digits
    /\ args.start + args.len > digits
    /\ ret.v # args.dst
    /\ ret.v # args.src

\* C22: _pdep(src, msk) has bit k of src at the k-th lowest set bit of msk
\* and 0 where msk is 0; _pext(src, msk) has at bit k the bit of src found at
\* the k-th lowest set bit of msk and 0 from bit popcount(msk) on; hence
\* _pext(_pdep(x, m), m) = x mod 2^popcount(m) and
\* _pdep(_pext(x, m), m) = x & m.
T_DepositExtract ==
    LET below(i) == Cardinality({j \in 0 .. (i - 1) : BitOf(args.msk, j) = 1})
    IN  /\ ret.f = "_pdep" =>
               /\ \A i \in WordBits :
                      BitOf(ret.v, i) = IF BitOf(args.msk, i) = 1
                                        THEN BitOf(args.src, below(i))
                                        ELSE 0
               /\ _pext(ret.v, args.msk) =
                      args.src % Pow2(SetBitCount(args.msk))
        /\ ret.f = "_pext" =>
               /\ \A i \in WordBits :
                      BitOf(args.msk, i) = 1 =>
                          BitOf(ret.v, below(i)) = BitOf(args.src, i)
               /\ \A k \in WordBits :
                      k >= SetBitCount(args.msk) => BitOf(ret.v, k) = 0
               /\ _pdep(ret.v, args.msk) = BitAnd(args.src, args.msk)

\* C22 witness: bits were deposited under a mask with gaps, the highest of
\* them from a different position of the source.
W_DepositExtract ==
    /\ ret.f = "_pdep"
    /\ args.msk = 164
    /\ args.src = 5
    /\ ret.v = 132

\* ------------------------------------------------------------------------
\* Stream extraction of a bit value (bit_value.hpp)
\* ------------------------------------------------------------------------

\* the characters of the input: the two digits, another one, a whitespace
Chars == {"0", "1", "x", " "}

RECURSIVE SkipSpace(_, _)
\* the sentry's discarding of whitespace from position p on
SkipSpace(buf, p) ==
    IF p < Len(buf) /\ buf[p + 1] = " " THEN SkipSpace(buf, p + 1) ELSE p

\* typename stream_type::sentry sentry(is): on a stream that is not good it
\* sets failbit; else it skips whitespace when skipws is set, and sets
\* eofbit and failbit when that reaches the end of the input
sentry(s) ==
    IF s.eof \/ s.fail \/ s.bad
    THEN [is |-> [s EXCEPT !.fail = TRUE], ok |-> FALSE]
    ELSE LET p == IF s.skipws THEN SkipSpace(s.buf, s.pos) ELSE s.pos
         IN  IF s.skipws /\ p = Len(s.buf)
             THEN [is |-> [s EXCEPT !.pos = p, !.eof = TRUE, !.fail = TRUE],
                   ok |-> FALSE]
             ELSE [is |-> [s EXCEPT !.pos = p], ok |-> TRUE]

\* mutant of operator_extract: a character that is no digit is not put back
operator_extract_consumes(s) ==
    LET g == sentry(s)
        t == g.is
    IN  IF ~g.ok THEN [t EXCEPT !.fail = TRUE]
        ELSE IF t.pos = Len(t.buf)
        THEN [t EXCEPT !.eof = TRUE, !.fail = TRUE]
        ELSE IF t.buf[t.pos + 1] = "0"
        THEN [t EXCEPT !.pos = @ + 1, !.x = 0]
        ELSE IF t.buf[t.pos + 1] = "1"
        THEN [t EXCEPT !.pos = @ + 1, !.x = 1]
        ELSE [t EXCEPT !.pos = @ + 1, !.fail = TRUE]

\* operator>>(is, x): sbumpc; eofbit at the end of the input; tmp.reset() or
\* tmp.set() on a digit; sputbackc of any other character; then x = tmp if
\* ok, else failbit
operator_extract(s) ==
    LET g == sentry(s)
        t == g.is
    IN  IF ~g.ok THEN [t EXCEPT !.fail = TRUE]
        ELSE IF t.pos = Len(t.buf)
        THEN [t EXCEPT !.eof = TRUE, !.fail = TRUE]
        ELSE IF t.buf[t.pos + 1] = "0"
        THEN [t EXCEPT !.pos = @ + 1, !.x = 0]
        ELSE IF t.buf[t.pos + 1] = "1"
        THEN [t EXCEPT !.pos = @ + 1, !.x = 1]
        ELSE [t EXCEPT !.fail = TRUE]

\* what operator>> found: the stream before the call
Before(s) ==
    [pos |-> s.pos, x |-> s.x, eof |-> s.eof, fail |-> s.fail, bad |-> s.bad]

\* a good stream over up to MaxInput characters, with skipws set (the
\* default) or cleared, and a bit_value of either value
InitStream ==
    /\ mem = [i \in Idx |-> 0]
    /\ mem0 = mem
    /\ first = Iter(0, 0)
    /\ last = Iter(NumWords, 0)
    /\ result = NotCounted
    /\ nrev = 0
    /\ ItIdle
    /\ RefIdle
    /\ WordIdle
    /\ \E n \in 0 .. MaxInput : \E b \in [1 .. n -> Chars],
                                   sk \in BOOLEAN, v \in {0, 1} :
           strm = [buf |-> b, pos |-> 0, skipws |-> sk, eof |-> FALSE,
                   fail |-> FALSE, bad |-> FALSE, x |-> v, n |-> 0,
                   pre |-> [pos |-> 0, x |-> v, eof |-> FALSE,
                            fail |-> FALSE, bad |-> FALSE]]
    /\ bset = NoBitset
    /\ bval = NoBitValue
    /\ trace = <<>>
    /\ ndebug \in BOOLEAN
    /\ pc = "run"

\* is >> x, at most once more than there are characters
Extract ==
    /\ pc = "run"
    /\ strm.n <= Len(strm.buf)
    /\ strm' = [operator_extract(strm) EXCEPT !.pre = Before(strm),
                                              !.n = @ + 1]
    /\ UNCHANGED <<algVars, itVars, refVars, wordVars, bset, bval, trace,
                   ndebug, pc>>

NextStream == Extract

SpecStream == InitStream /\ [][NextStream]_vars

\* the stream was good when the last is >> x began
WasGood == strm.n >= 1 /\ ~strm.pre.eof /\ ~strm.pre.fail /\ ~strm.pre.bad

\* what the last is >> x did, given the position at of the character it had
\* to read: a digit is stored and consumed with no flag set, another
\* character sets failbit and stays the next one to read, the end of the
\* input sets eofbit and failbit, and in both the bit_value is unchanged
Extracted(at) ==
    IF at = Len(strm.buf)
    THEN strm.eof /\ strm.fail /\ strm.x = strm.pre.x
    ELSE IF strm.buf[at + 1] \in {"0", "1"}
    THEN /\ strm.x = (IF strm.buf[at + 1] = "1" THEN 1 ELSE 0)
         /\ ~strm.fail /\ ~strm.eof /\ ~strm.bad
         /\ strm.pos = at + 1
    ELSE /\ strm.fail
         /\ strm.x = strm.pre.x
         /\ strm.pos = at

\* C23 as stated: the character the extraction decides on is the next
\* character of the input, whatever it is.
C_ExtractNextChar == WasGood => Extracted(strm.pre.pos)

\* C23 amended: the character the extraction decides on is the next one after
\* the whitespace that the stream skips while skipws is set (the default);
\* that whitespace is consumed. With skipws cleared it is the next character.
T_ExtractAfterSpace ==
    WasGood =>
        Extracted(IF strm.skipws
                  THEN SkipSpace(strm.buf, strm.pre.pos)
                  ELSE strm.pre.pos)

\* C23 witness: on a stream that skips whitespace, a blank was followed by
\* '1': the blank and the digit were consumed, the bit_value went from 0 to
\* 1 and no flag is set.
W_ExtractAfterSpace ==
    /\ WasGood
    /\ strm.skipws
    /\ strm.buf = <<" ", "1">>
    /\ strm.pre.x = 0
    /\ strm.x = 1
    /\ strm.pos = 2
    /\ ~strm.fail

\* ------------------------------------------------------------------------
\* The caller: the one-word array 0b10110000 counted, reversed, counted
\* ------------------------------------------------------------------------

\* the word 0b10110000 is one word of the caller's memory, and
\* [first, last) is all of it
InitExample ==
    /\ \E w \in Idx :
           /\ mem \in {m \in [Idx -> {0, 77, 176}] : m[w] = 176}
           /\ first = Iter(w, 0)
           /\ last = Iter(w + 1, 0)
    /\ mem0 = mem
    /\ result = NotCounted
    /\ nrev = 0
    /\ ItIdle
    /\ RefIdle
    /\ WordIdle
    /\ ExtIdle
    /\ ndebug = FALSE
    /\ pc = "run"

\* the caller goes on with the range [bit 2, bit 6) of the word
Narrow ==
    /\ pc = "run"
    /\ first.position = 0
    /\ first' = Iter(first.base, 2)
    /\ last' = Iter(first.base, 6)
    /\ result' = NotCounted
    /\ UNCHANGED <<mem, mem0, nrev, itVars, refVars, wordVars, ndebug,
                   extVars, pc>>

NextExample == (\E v \in BOOLEAN : Count(v)) \/ Reverse \/ Narrow

SpecExample == InitExample /\ [][NextExample]_vars

\* C24: with digits = 8 and the one-word array [0b10110000], the count of
\* one-bits over [bit 0, bit 8) is 3, reverse over [bit 0, bit 8) makes the
\* word 0b00001101, and the count of one-bits over [bit 2, bit 6) of the
\* reversed word is 2; no other word of the memory changes.
T_Example ==
    /\ digits = 8
    /\ mem0[first.base] = 176
    /\ pc = "run"
    /\ \A i \in Idx \ {first.base} : mem[i] = mem0[i]
    /\ (first.position = 0 /\ nrev = 0 /\ TRUE \in DOMAIN result) =>
           result[TRUE] = 3
    /\ (first.position = 0 /\ nrev = 1) => mem[first.base] = 13
    /\ (first.position = 2 /\ mem[first.base] = 13
            /\ TRUE \in DOMAIN result) =>
           result[TRUE] = 2

\* C24 witness: the word was reversed once as a whole, and the one-bits of
\* [bit 2, bit 6) of the reversed word have been counted.
W_Example ==
    /\ nrev = 1
    /\ mem[first.base] = 13
    /\ first.position = 2
    /\ last.position = 6
    /\ TRUE \in DOMAIN result
    /\ result[TRUE] = 2

\* ------------------------------------------------------------------------
\* Bitset adapter (integral_bitset.hpp): size and container
\* ------------------------------------------------------------------------

\* static constexpr size_type dynamic = -1: the largest size_type, here a
\* number above every bit count of the model
dynamic == 1000000

\* has_minimum_size, has_maximum_size
has_minimum_size(b) == b.min # dynamic

has_maximum_size(b) == b.max # dynamic

\* count / digits + (count % digits != 0)
new_container_size(cnt) == cnt \div digits + B2I(cnt % digits # 0)

\* capacity(): _container.size() * digits (below the saturation at max)
capacity(b) == b.words * digits

\* what a call did: op(count), whether it threw std::length_error, whether
\* it wrote into the container (resized it or filled bits), and the size and
\* the number of words it found
Called(b, o, cnt, thrown, wrote) ==
    [op |-> o, count |-> cnt, thrown |-> thrown, wrote |-> wrote,
     size0 |-> b.size, words0 |-> b.words]

\* the call threw: nothing is assigned
Thrown(b, o, cnt) ==
    [b EXCEPT !.last = Called(b, o, cnt, TRUE, FALSE)]

\* mutant of _resize: the maximum is tested when the bitset does not grow
_resize_swapped(b, cnt) ==
    LET minimum_condition == ~has_minimum_size(b) \/ cnt >= b.min
        maximum_condition == ~has_maximum_size(b) \/ cnt <= b.max
    IN  IF (IF cnt <= b.size THEN maximum_condition ELSE minimum_condition)
        THEN [b EXCEPT !.words = new_container_size(cnt),
                       !.size = cnt,
                       !.last = Called(b, "resize", cnt, FALSE, TRUE)]
        ELSE Thrown(b, "resize", cnt)

\* _resize(count), dynamic container and default insertion
_resize(b, cnt) ==
    LET minimum_condition == ~has_minimum_size(b) \/ cnt >= b.min
        maximum_condition == ~has_maximum_size(b) \/ cnt <= b.max
    IN  IF (IF cnt <= b.size THEN minimum_condition ELSE maximum_condition)
        THEN [b EXCEPT !.words = new_container_size(cnt),
                       !.size = cnt,
                       !.last = Called(b, "resize", cnt, FALSE, TRUE)]
        ELSE Thrown(b, "resize", cnt)

\* _resize(count, value), dynamic container: as _resize(count), and the new
\* bits are filled with value
_resize_value(b, cnt) ==
    LET minimum_condition == ~has_minimum_size(b) \/ cnt >= b.min
        maximum_condition == ~has_maximum_size(b) \/ cnt <= b.max
    IN  IF (IF cnt <= b.size THEN minimum_condition ELSE maximum_condition)
        THEN [b EXCEPT !.words = new_container_size(cnt),
                       !.size = cnt,
                       !.last = Called(b, "resize_value", cnt, FALSE, TRUE)]
        ELSE Thrown(b, "resize_value", cnt)

\* _resize(count, value, X...), fixed size container
_resize_fixed_value(b, cnt) ==
    LET container_condition == new_container_size(cnt) <= b.words
        minimum_condition   == ~has_minimum_size(b) \/ cnt >= b.min
        maximum_condition   == ~has_maximum_size(b) \/ cnt <= b.max
    IN  IF cnt < b.size
        THEN IF minimum_condition
             THEN [b EXCEPT !.size = cnt,
                            !.last = Called(b, "resize_value", cnt,
                                            FALSE, FALSE)]
             ELSE Thrown(b, "resize_value", cnt)
        ELSE IF cnt > b.size
        THEN IF container_condition /\ maximum_condition
             THEN [b EXCEPT !.size = cnt,
                            !.last = Called(b, "resize_value", cnt,
                                            FALSE, TRUE)]
             ELSE Thrown(b, "resize_value", cnt)
        ELSE [b EXCEPT !.last = Called(b, "resize_value", cnt,
                                       FALSE, FALSE)]

\* mutant of _reserve: the container is resized to the new capacity always
_reserve_always(b, new_cap) ==
    [b EXCEPT !.words = new_container_size(new_cap),
              !.last = Called(b, "reserve", new_cap, FALSE, TRUE)]

\* _reserve(new_cap)
_reserve(b, new_cap) ==
    LET new_container_cap == new_container_size(new_cap)
    IN  IF new_container_cap > b.words
        THEN [b EXCEPT !.words = new_container_cap,
                       !.last = Called(b, "reserve", new_cap, FALSE, TRUE)]
        ELSE [b EXCEPT !.last = Called(b, "reserve", new_cap, FALSE, FALSE)]

\* _shrink_to_fit(): the container is resized to the words of _size, and
\* its own shrink_to_fit leaves its size alone; nothing on a fixed container
_shrink_to_fit(b) ==
    IF b.fixed
    THEN [b EXCEPT !.last = Called(b, "shrink_to_fit", 0, FALSE, FALSE)]
    ELSE [b EXCEPT !.words = new_container_size(b.size),
                   !.last = Called(b, "shrink_to_fit", 0, FALSE,
                                   b.words # new_container_size(b.size))]

\* the (Min, Max) of the bitsets under test, Min < Max
SizeBounds == {<<dynamic, dynamic>>, <<3, dynamic>>, <<3, 17>>, <<8, 16>>}

\* a bitset whose size is within its bounds and whose container holds it: a
\* resizable container of just enough words or one more, or a fixed one of
\* 2 words
InitBitset ==
    /\ mem = [i \in Idx |-> 0]
    /\ mem0 = mem
    /\ first = Iter(0, 0)
    /\ last = Iter(NumWords, 0)
    /\ result = NotCounted
    /\ nrev = 0
    /\ ItIdle
    /\ RefIdle
    /\ WordIdle
    /\ strm = NoStream
    /\ bval = NoBitValue
    /\ trace = <<>>
    /\ \E mm \in SizeBounds, fx \in BOOLEAN, n \in 0 .. MaxBits,
          extra \in {0, 1} :
           LET b == [fixed |-> fx, min |-> mm[1], max |-> mm[2], size |-> n,
                     words |-> IF fx THEN 2
                               ELSE new_container_size(n) + extra]
           IN  /\ has_minimum_size(b) => n >= b.min
               /\ has_maximum_size(b) => n <= b.max
               /\ capacity(b) >= n
               /\ bset = [fixed |-> b.fixed, min |-> b.min, max |-> b.max,
                          size |-> b.size, words |-> b.words,
                          last |-> Called(b, "none", 0, FALSE, FALSE)]
    /\ ndebug \in BOOLEAN
    /\ pc = "run"

\* the frame of a call on the bitset
BitsetCall(b) ==
    /\ pc = "run"
    /\ bset' = b
    /\ UNCHANGED <<algVars, itVars, refVars, wordVars, strm, bval, trace,
                   ndebug, pc>>

\* resize(count) on a resizable container
Resize(cnt) == ~bset.fixed /\ BitsetCall(_resize(bset, cnt))

\* resize(count, value)
ResizeValue(cnt) ==
    BitsetCall(IF bset.fixed THEN _resize_fixed_value(bset, cnt)
               ELSE _resize_value(bset, cnt))

\* reserve(new_cap) on a resizable container
Reserve(new_cap) == ~bset.fixed /\ BitsetCall(_reserve(bset, new_cap))

\* shrink_to_fit()
ShrinkToFit == BitsetCall(_shrink_to_fit(bset))

NextBitset ==
    \/ \E cnt \in 0 .. MaxBits : Resize(cnt)
    \/ \E cnt \in 0 .. MaxBits : ResizeValue(cnt)
    \/ \E new_cap \in 0 .. MaxBits : Reserve(new_cap)
    \/ ShrinkToFit

SpecBitset == InitBitset /\ [][NextBitset]_vars

InitStep ==
    /\ mem = [i \in Idx |-> 0]
    /\ mem0 = mem
    /\ first = Iter(0, 0)
    /\ last = Iter(NumWords, 0)
    /\ result = NotCounted
    /\ nrev = 0
    /\ \/ iter \in ArrayIters /\ bptr = NoRef
       \/ /\ iter = Iter(0, 0)
          /\ \E w \in Idx, pos \in 0 .. (digits - 1) : bptr = bit_pointer(w, pos)
    /\ p1 = iter
    /\ p2 = iter
    /\ op1 = NoOp
    /\ op2 = NoOp
    /\ ref = NoRef
    /\ chain = [from |-> iter, k |-> 0]
    /\ RefIdle
    /\ cmp = NoCmp
    /\ args = NoArgs
    /\ ret = NoRet
    /\ ExtIdle
    /\ ndebug \in BOOLEAN
    /\ pc = "run"

\* ++iter or --iter made r of iter; chain counts the equal steps in a row
Stepped(o, r) ==
    /\ pc = "run"
    /\ bptr = NoRef
    /\ iter' = r
    /\ p1' = iter
    /\ op1' = [op |-> o, n |-> 1]
    /\ p2' = r
    /\ op2' = NoOp
    /\ chain' = IF op1.op = o
                THEN [from |-> chain.from, k |-> chain.k + 1]
                ELSE [from |-> iter, k |-> 1]
    /\ trace' = Traced(o, iter)
    /\ UNCHANGED <<algVars, ref, refVars, wordVars, strm, bset, bval, ndebug,
                   pc>>

StepInc == InArray(iter, 1) /\ Stepped("++", operator_inc(iter))

StepDec == InArray(iter, -1) /\ Stepped("--", operator_dec(iter))

\* a copy of the iterator the steps began at is moved by o over their number
\* n; the bit_iterator(i, pos) it is made with runs its assertion
Jumped(o, n, r) ==
    /\ pc = "run"
    /\ bptr = NoRef
    /\ op2 = NoOp
    /\ op2' = [op |-> o, n |-> n]
    /\ IF ~ndebug /\ ~position_assert(r.position)
       THEN pc' = "assert" /\ p2' = p2
       ELSE pc' = pc /\ p2' = r
    /\ UNCHANGED <<algVars, iter, p1, op1, ref, chain, refVars, wordVars,
                   ndebug, extVars>>

\* copy = from; copy += k
JumpPlus ==
    /\ op1.op \in {"none", "++"}
    /\ Jumped("+=", chain.k, operator_plus(chain.from, chain.k))

\* copy = from; copy -= k
JumpMinus ==
    /\ op1.op \in {"none", "--"}
    /\ Jumped("-=", chain.k, operator_minus(chain.from, chain.k))

NextStep ==
    \/ StepInc
    \/ StepDec
    \/ JumpPlus
    \/ JumpMinus
    \/ PtrInc
    \/ PtrDec

SpecStep == InitStep /\ [][NextStep]_vars

\* C26: for an iterator and for a pointer, ++ then -- and -- then ++ restore
\* the word and the position; -- from position 0 goes to position digits - 1
\* of the previous word, ++ from position digits - 1 to position 0 of the
\* next word.
T_StepInverse ==
    /\ (pc = "run" /\ Len(trace) = 2 /\ trace[1].op # trace[2].op) =>
           trace[2].at = IF bptr = NoRef THEN iter ELSE bptr
    /\ (bptr = NoRef /\ pc = "run" /\ Len(trace) >= 1) =>
           LET at == trace[1].at
           IN  /\ (trace[1].op = "--" /\ at.position = 0) =>
                      iter = Iter(at.base - 1, digits - 1)
               /\ (trace[1].op = "++" /\ at.position = digits - 1) =>
                      iter = Iter(at.base + 1, 0)
               /\ iter.position \in 0 .. (digits - 1)
    /\ (bptr # NoRef /\ Len(trace) >= 1) =>
           LET at == trace[1].at
           IN  /\ (trace[1].op = "--" /\ at.mask = 1) =>
                      bptr = [ptr |-> at.ptr - 1, mask |-> Pow2(digits - 1)]
               /\ (trace[1].op = "++" /\ at.mask = Pow2(digits - 1)) =>
                      bptr = [ptr |-> at.ptr + 1, mask |-> 1]
               /\ \E i \in 0 .. (digits - 1) : bptr.mask = Pow2(i)

\* C26 witness: a pointer at bit 0 of word 1 was decremented into word 0 and
\* incremented back.
W_StepInverse ==
    /\ bptr = [ptr |-> 1, mask |-> 1]
    /\ Len(trace) = 2
    /\ trace[1].op = "++"
    /\ trace[2].op = "--"
    /\ trace[1].at = [ptr |-> 0, mask |-> Pow2(digits - 1)]
    /\ trace[2].at = bptr

\* C27: for every iterator with position below digits and every n >= 0,
\* it += n yields the word and the position that n successive ++ yield, and
\* it -= n those that n successive -- yield.
C_StepsEqualJump ==
    op2.op \in {"+=", "-="} => (pc = "run" /\ p2 = iter)

\* ---------------------------------------------------------------------
\* bit_value of src/src/bit_value.hpp: compound assignment with an
\* integral right-hand side
\* ---------------------------------------------------------------------

\* largest magnitude of the integral right-hand sides
MaxVal == 16

\* val & 1 of a two's complement integer
LowBit(rhs) == rhs % 2

\* bit_value::operator&= (arithmetic T): if (*this && val & 1) set();
bit_value_and_assign(x, rhs) ==
    IF x = 1 /\ LowBit(rhs) # 0 THEN 1 ELSE x

\* bit_value::operator|= (arithmetic T): if (!*this && val & 1) set();
bit_value_or_assign(x, rhs) ==
    IF x = 0 /\ LowBit(rhs) # 0 THEN 1 ELSE x

\* bit_value::operator^= (arithmetic T): if (val & 1) flip();
bit_value_xor_assign(x, rhs) ==
    IF LowBit(rhs) # 0 THEN 1 - x ELSE x

InitValue ==
    /\ mem = [i \in Idx |-> 0]
    /\ mem0 = mem
    /\ first = Iter(0, 0)
    /\ last = Iter(NumWords, 0)
    /\ result = NotCounted
    /\ nrev = 0
    /\ ItIdle
    /\ RefIdle
    /\ WordIdle
    /\ strm = NoStream
    /\ bset = NoBitset
    /\ \E v \in {0, 1} : bval = [value |-> v, op |-> "none", val |-> 0,
                                 pre |-> v]
    /\ trace = <<>>
    /\ ndebug \in BOOLEAN
    /\ pc = "run"

\* x op= rhs: the bit before, the operator and its operand are kept
Assigned(o, rhs, r) ==
    /\ bval' = [value |-> r, op |-> o, val |-> rhs, pre |-> bval.value]
    /\ UNCHANGED <<algVars, itVars, refVars, wordVars, strm, bset, trace,
                   ndebug, pc>>

AndAssign ==
    /\ pc = "run"
    /\ \E rhs \in -MaxVal .. MaxVal :
           Assigned("&=", rhs, bit_value_and_assign(bval.value, rhs))

OrAssign ==
    /\ pc = "run"
    /\ \E rhs \in -MaxVal .. MaxVal :
           Assigned("|=", rhs, bit_value_or_assign(bval.value, rhs))

XorAssign ==
    /\ pc = "run"
    /\ \E rhs \in -MaxVal .. MaxVal :
           Assigned("^=", rhs, bit_value_xor_assign(bval.value, rhs))

NextValue == AndAssign \/ OrAssign \/ XorAssign

SpecValue == InitValue /\ [][NextValue]_vars

\* C29: for every bit value x and every integral val, x &= val leaves
\* x equal to (old x) AND (val & 1), x |= val leaves it equal to
\* (old x) OR (val & 1) and x ^= val leaves it equal to (old x) XOR (val & 1).
C_CompoundLowBit ==
    /\ bval.op = "&=" =>
           bval.value = (IF bval.pre = 1 /\ bval.val % 2 = 1 THEN 1 ELSE 0)
    /\ bval.op = "|=" =>
           bval.value = (IF bval.pre = 1 \/ bval.val % 2 = 1 THEN 1 ELSE 0)
    /\ bval.op = "^=" =>
           bval.value = (IF bval.pre # bval.val % 2 THEN 1 ELSE 0)

\* ---------------------------------------------------------------------
\* count over a range [first, last) and over its two parts [first, iter)
\* and [iter, last)
\* ---------------------------------------------------------------------

InitSplit ==
    /\ mem \in [Idx -> Patterns]
    /\ mem0 = mem
    /\ first \in ArrayIters
    /\ last \in ArrayIters
    /\ iter \in ArrayIters
    /\ Difference(iter, first) >= 0
    /\ Difference(last, iter) >= 0
    /\ p1 = iter
    /\ p2 = iter
    /\ op1 = NoOp
    /\ op2 = NoOp
    /\ ref = NoRef
    /\ chain = [from |-> iter, k |-> 0]
    /\ result = NotCounted
    /\ nrev = 0
    /\ RefIdle
    /\ WordIdle
    /\ ExtIdle
    /\ ndebug = FALSE
    /\ pc = "run"

\* count(f, l, bit_value(v)), its value kept under the name part
Counting(part, f, l, v) ==
    /\ pc = "run"
    /\ <<part, v>> \notin DOMAIN result
    /\ \A k \in DOMAIN result : k[2] = v
    /\ IF _assert_range_viability(f, l)
       THEN \E g \in Garbage :
                /\ result' = [k \in DOMAIN result \cup {<<part, v>>} |->
                                 IF k = <<part, v>>
                                 THEN count(mem, f, l, v, g)
                                 ELSE result[k]]
                /\ pc' = pc
       ELSE /\ pc' = "assert"
            /\ result' = result
    /\ UNCHANGED <<mem, mem0, first, last, nrev, itVars, refVars, wordVars,
                   ndebug, extVars>>

\* count(first, last, v)
CountWhole ==
    /\ result = NotCounted
    /\ \E v \in BOOLEAN : Counting("whole", first, last, v)

\* count(first, iter, v), after the whole range
CountLeft ==
    /\ \E k \in DOMAIN result : k[1] = "whole"
    /\ \E v \in BOOLEAN : Counting("left", first, iter, v)

\* count(iter, last, v), after the left part
CountRight ==
    /\ \E k \in DOMAIN result : k[1] = "left"
    /\ \E v \in BOOLEAN : Counting("right", iter, last, v)

NextSplit == CountWhole \/ CountLeft \/ CountRight

SpecSplit == InitSplit /\ [][NextSplit]_vars

\* C28: for iterators first <= iter <= last over one array, whatever their
\* alignment, and both bit values v, count(first, last, v) equals
\* count(first, iter, v) + count(iter, last, v), and no count changes a word
\* or fails the range assertion.
T_CountSplits ==
    /\ mem = mem0
    /\ pc = "run"
    /\ \A v \in BOOLEAN :
           {<<"whole", v>>, <<"left", v>>, <<"right", v>>} \subseteq
               DOMAIN result
           => result[<<"whole", v>>] =
                  result[<<"left", v>>] + result[<<"right", v>>]

\* C28 witness: the three counts of zero bits were taken with the middle
\* iterator inside the word that the first iterator is in, none of the three
\* iterators aligned, the range reaching into a later word, and both parts
\* holding zero bits and one bits.
W_CountSplits ==
    /\ DOMAIN result = {<<"whole", FALSE>>, <<"left", FALSE>>,
                        <<"right", FALSE>>}
    /\ first.position # 0
    /\ iter.base = first.base
    /\ iter.position > first.position
    /\ last.base > iter.base
    /\ last.position # 0
    /\ result[<<"left", FALSE>>] > 0
    /\ result[<<"left", FALSE>>] < Difference(iter, first)
    /\ result[<<"right", FALSE>>] > 0
    /\ result[<<"right", FALSE>>] < Difference(last, iter)

====
